---- MODULE Spec2Model ----
(***************************************************************************)
(* Zip-zip tree (huesflash/ziptree): an ordered set stored in a flat,      *)
(* index-addressed arena, with subtree counts for order statistics, and a  *)
(* keyed map that pairs the arena with a parallel value array.             *)
(*                                                                         *)
(* The arena `entries` is a function 0..n-1 -> node, as the Go slice is;   *)
(* handles are uint32 and SENTINEL (all ones) is the "none" handle.        *)
(***************************************************************************)
EXTENDS Integers, FiniteSets, Sequences

VARIABLES entries, root, values, kind, iter, last

vars == <<entries, root, values, kind, iter, last>>

(***************************************************************************)
(* Bounds of the model.                                                    *)
(***************************************************************************)
\* keys are drawn from 1..MaxKey
MaxKey == 4
\* an absent key is inserted only while the arena holds fewer nodes
MaxSize == 4
\* the number of "heads" coin flips of one insertion is at most MaxR1
MaxR1 == 1
\* the tie-break draw r2 is at most MaxR2 (and always below the code's L)
MaxR2 == 1
\* map values are drawn from 1..MaxVal
MaxVal == 2
\* a map is grown only while it holds fewer than MapMaxSize entries
MapMaxSize == 3
\* a client that keeps a cursor across mutations grows its tree only while it
\* holds fewer than StaleMaxSize keys
StaleMaxSize == 3
\* the tree whose calls are followed step by step grows while it holds fewer
\* than TermMaxSize keys
TermMaxSize == 3
\* the step-by-step coin loop is followed while r1 is below TermMaxR1
TermMaxR1 == 2

Keys == 1..MaxKey
Vals == 1..MaxVal

(***************************************************************************)
(* Machine integers.  Counts and indices stay far below 2^32 at every      *)
(* arena size the model reaches, so their uint32 arithmetic never wraps.   *)
(***************************************************************************)
\* ^ZipNodeEntryIndex(0): the all-ones uint32.  TLC's integers are 32-bit signed,
\* so the handle is written as the signed reading of the same 32 bits.
\* The code only tests handles for equality with it and never orders them.
SENTINEL == -1

\* ^uint32(0), the value indexOf returns for an absent key: the same 32 bits
NOT_FOUND == -1

RECURSIVE Len32(_)
\* math/bits.Len32: the number of bits needed to represent x, 0 for x = 0
Len32(x) == IF x = 0 THEN 0 ELSE 1 + Len32(x \div 2)

RECURSIVE BitOr(_, _)
\* bitwise or of two naturals
BitOr(a, b) ==
    IF a = 0 THEN b
    ELSE IF b = 0 THEN a
    ELSE (IF (a % 2 = 1) \/ (b % 2 = 1) THEN 1 ELSE 0) + 2 * BitOr(a \div 2, b \div 2)

\* the comparator the tree is built with: the tests' func(a, b int32) bool { return a < b }
lessThan(a, b) == a < b

(***************************************************************************)
(* The arena.                                                              *)
(***************************************************************************)
\* len(z.entries)
len(e) == Cardinality(DOMAIN e)

\* append(z.entries, node)
Append0(e, node) == [i \in 0..len(e) |-> IF i = len(e) THEN node ELSE e[i]]

\* z.entries[:last]
Truncate(e, n) == [i \in 0..(n - 1) |-> e[i]]

ZipNode(key, rank) ==
    [key |-> key, rank |-> rank, left |-> SENTINEL, right |-> SENTINEL,
     parent |-> SENTINEL, count |-> 1]

NewZipTree == [entries |-> [i \in 0..(0 - 1) |-> ZipNode(0, 0)], root |-> SENTINEL]

RECURSIVE findLoop_Nearest(_, _, _, _)
\* a bug: on a miss the search answers the last node it visited
findLoop_Nearest(e, cur, seen, key) ==
    IF cur = SENTINEL THEN seen
    ELSE IF lessThan(key, e[cur].key) THEN findLoop_Nearest(e, e[cur].left, cur, key)
    ELSE IF lessThan(e[cur].key, key) THEN findLoop_Nearest(e, e[cur].right, cur, key)
    ELSE cur

find_Nearest(z, key) == findLoop_Nearest(z.entries, z.root, SENTINEL, key)

RECURSIVE findLoop(_, _, _)
findLoop(e, cur, key) ==
    IF cur = SENTINEL THEN cur
    ELSE IF lessThan(key, e[cur].key) THEN findLoop(e, e[cur].left, key)
    ELSE IF lessThan(e[cur].key, key) THEN findLoop(e, e[cur].right, key)
    ELSE cur

find(z, key) == findLoop(z.entries, z.root, key)

RECURSIVE fixupCount_NoRight(_, _, _)
\* a bug: the right child's count is not added
fixupCount_NoRight(e, curr, limit) ==
    IF curr = limit THEN e
    ELSE LET left  == e[curr].left
             c1 == IF left # SENTINEL THEN 1 + e[left].count ELSE 1
         IN  fixupCount_NoRight([e EXCEPT ![curr].count = c1], e[curr].parent, limit)

RECURSIVE fixupCount(_, _, _)
\* recompute count from curr up the parent links, stopping before limit
fixupCount(e, curr, limit) ==
    IF curr = limit THEN e
    ELSE LET left  == e[curr].left
             right == e[curr].right
             c1 == IF left # SENTINEL THEN 1 + e[left].count ELSE 1
             c2 == IF right # SENTINEL THEN c1 + e[right].count ELSE c1
         IN  fixupCount([e EXCEPT ![curr].count = c2], e[curr].parent, limit)

(***************************************************************************)
(* insert: rank draw, descent, splice, unzip, count repair.                *)
(***************************************************************************)
\* the exclusive bound of the r2 draw for an arena of n > 0 nodes
r2Bound(n) == LET logOfN == Len32(n + 1) - 1 IN logOfN * logOfN * logOfN

\* rank := r1<<16 | (1 + r2)
packRank(r1, r2) == BitOr(r1 * 65536, 1 + r2)

\* the (r1, r2) draws the random source can return for an arena of n nodes
RankDraws(n) ==
    {d \in (0..MaxR1) \X (0..MaxR2) : IF n > 0 THEN d[2] < r2Bound(n) ELSE d[2] = 0}

\* a bug: equal ranks are not broken by key
descendCond_NoTieBreak(e, curr, key, rank) ==
    curr # SENTINEL /\ rank < e[curr].rank

\* a bug: among equal ranks the descent passes the nodes of greater key
descendCond_TieGreater(e, curr, key, rank) ==
    curr # SENTINEL /\ (rank < e[curr].rank
                          \/ (rank = e[curr].rank /\ lessThan(key, e[curr].key)))

\* the descent continues past curr
descendCond(e, curr, key, rank) ==
    curr # SENTINEL /\ (rank < e[curr].rank
                          \/ (rank = e[curr].rank /\ lessThan(e[curr].key, key)))

RECURSIVE descend(_, _, _, _, _)
\* <<curr, prev>> where the descent from curr stops
descend(e, curr, prev, key, rank) ==
    IF descendCond(e, curr, key, rank)
    THEN descend(e, IF lessThan(key, e[curr].key) THEN e[curr].left ELSE e[curr].right,
                 curr, key, rank)
    ELSE <<curr, prev>>

RECURSIVE walkRight(_, _, _, _)
\* for curr != SENTINEL && !lessThan(key, entries[curr].key) { prev = curr; curr = right }
walkRight(e, curr, prev, key) ==
    IF curr # SENTINEL /\ ~lessThan(key, e[curr].key)
    THEN walkRight(e, e[curr].right, curr, key)
    ELSE <<curr, prev>>

RECURSIVE walkLeft(_, _, _, _)
\* for curr != SENTINEL && !lessThan(entries[curr].key, key) { prev = curr; curr = left }
walkLeft(e, curr, prev, key) ==
    IF curr # SENTINEL /\ ~lessThan(e[curr].key, key)
    THEN walkLeft(e, e[curr].left, curr, key)
    ELSE <<curr, prev>>

\* a bug: the case of the new node itself (fix == idx) is left out
attachLeft_NoNewNodeCase(e, fix, prev, key, idx) == lessThan(key, e[fix].key)

\* the rest of the split subtree goes to the left of fix (else to its right)
attachLeft(e, fix, prev, key, idx) ==
    lessThan(key, e[fix].key) \/ (fix = idx /\ lessThan(key, e[prev].key))

RECURSIVE unzip(_, _, _, _, _)
\* the loop splitting the subtree at curr around key, under the new node idx
unzip(e, curr, prev, key, idx) ==
    IF curr = SENTINEL THEN e
    ELSE LET fix == prev
             w   == IF lessThan(e[curr].key, key)
                    THEN walkRight(e, curr, prev, key)
                    ELSE walkLeft(e, curr, prev, key)
             c2  == w[1]
             p2  == w[2]
             e1  == IF attachLeft(e, fix, p2, key, idx)
                    THEN [e EXCEPT ![fix].left = c2]
                    ELSE [e EXCEPT ![fix].right = c2]
             e2  == IF c2 # SENTINEL THEN [e1 EXCEPT ![c2].parent = fix] ELSE e1
         IN  unzip(fixupCount(e2, fix, idx), c2, p2, key, idx)

insert(z, key, rank) ==
    LET rootIdx == z.root
        idx  == len(z.entries)
        e1   == Append0(z.entries, ZipNode(key, rank))
        d    == descend(e1, rootIdx, SENTINEL, key, rank)
        curr == d[1]
        prev == d[2]
        r2   == IF curr = rootIdx THEN idx ELSE rootIdx
        e2   == IF curr = rootIdx THEN e1
                ELSE LET a == IF lessThan(key, e1[prev].key)
                              THEN [e1 EXCEPT ![prev].left = idx]
                              ELSE [e1 EXCEPT ![prev].right = idx]
                     IN  [a EXCEPT ![idx].parent = prev]
        e3   == IF curr # SENTINEL
                THEN LET a == IF lessThan(key, e2[curr].key)
                              THEN [e2 EXCEPT ![idx].right = curr]
                              ELSE [e2 EXCEPT ![idx].left = curr]
                         b == [a EXCEPT ![curr].parent = idx]
                     IN  unzip(b, curr, idx, key, idx)
                ELSE e2
    IN  [entries |-> fixupCount(e3, idx, SENTINEL), root |-> r2]

(***************************************************************************)
(* delete: replace the victim by a child, zip its subtrees, repair the     *)
(* counts, then compact the arena.                                         *)
(***************************************************************************)
RECURSIVE zipLeft(_, _, _, _)
\* for !(left == SENTINEL || entries[left].rank < rightRank) { prev = left; left = right }
zipLeft(e, left, prev, rightRank) ==
    IF ~(left = SENTINEL \/ e[left].rank < rightRank)
    THEN zipLeft(e, e[left].right, left, rightRank)
    ELSE <<left, prev>>

RECURSIVE zipRight(_, _, _, _)
\* for !(right == SENTINEL || leftRank >= entries[right].rank) { prev = right; right = left }
zipRight(e, right, prev, leftRank) ==
    IF ~(right = SENTINEL \/ leftRank >= e[right].rank)
    THEN zipRight(e, e[right].left, right, leftRank)
    ELSE <<right, prev>>

RECURSIVE zip(_, _, _, _)
\* the merge loop of deleteIndex: <<entries, prev>> when one side is exhausted
zip(e, left, right, prev) ==
    IF left # SENTINEL /\ right # SENTINEL
    THEN IF e[left].rank >= e[right].rank
         THEN LET w  == zipLeft(e, left, prev, e[right].rank)
                  e1 == [e EXCEPT ![w[2]].right = right]
                  e2 == [e1 EXCEPT ![right].parent = w[2]]
              IN  zip(e2, w[1], right, w[2])
         ELSE LET w  == zipRight(e, right, prev, e[left].rank)
                  e1 == [e EXCEPT ![w[2]].left = left]
                  e2 == [e1 EXCEPT ![left].parent = w[2]]
              IN  zip(e2, left, w[1], w[2])
    ELSE <<e, prev>>

\* a bug: of two children of equal rank the right one takes the victim's place
deleteChoice_RightOnTie(e, left, right) ==
    IF left = SENTINEL THEN right
    ELSE IF right = SENTINEL THEN left
    ELSE IF e[left].rank > e[right].rank THEN left
    ELSE right

\* a bug: the left child takes the victim's place whatever the ranks
deleteChoice_LeftFirst(e, left, right) ==
    IF left = SENTINEL THEN right ELSE left

\* the child that takes the victim's place
deleteChoice(e, left, right) ==
    IF left = SENTINEL THEN right
    ELSE IF right = SENTINEL THEN left
    ELSE IF e[left].rank >= e[right].rank THEN left
    ELSE right

\* a bug: the root handle is not moved when the root itself is deleted
deleteIndex_KeepRoot(z, keyIdx) ==
    LET e     == z.entries
        key   == e[keyIdx].key
        prev  == e[keyIdx].parent
        left  == e[keyIdx].left
        right == e[keyIdx].right
        curr  == deleteChoice(e, left, right)
        e1    == IF z.root = keyIdx THEN e
                 ELSE IF lessThan(key, e[prev].key)
                      THEN [e EXCEPT ![prev].left = curr]
                      ELSE [e EXCEPT ![prev].right = curr]
        e2    == IF curr # SENTINEL THEN [e1 EXCEPT ![curr].parent = prev] ELSE e1
        m     == zip(e2, left, right, prev)
    IN  [entries |-> fixupCount(m[1], m[2], SENTINEL), root |-> z.root]

\* a bug: the counts above the zipped subtrees are not recomputed
deleteIndex_NoFixup(z, keyIdx) ==
    LET e     == z.entries
        key   == e[keyIdx].key
        prev_ == e[keyIdx].parent
        left  == e[keyIdx].left
        right == e[keyIdx].right
        curr  == deleteChoice(e, left, right)
        r1    == IF z.root = keyIdx THEN curr ELSE z.root
        e1    == IF z.root = keyIdx THEN e
                 ELSE IF lessThan(key, e[prev_].key)
                      THEN [e EXCEPT ![prev_].left = curr]
                      ELSE [e EXCEPT ![prev_].right = curr]
        e2    == IF curr # SENTINEL THEN [e1 EXCEPT ![curr].parent = prev_] ELSE e1
        m     == zip(e2, left, right, prev_)
    IN  [entries |-> m[1], root |-> r1]

deleteIndex(z, keyIdx) ==
    LET e     == z.entries
        key   == e[keyIdx].key
        prev  == e[keyIdx].parent
        left  == e[keyIdx].left
        right == e[keyIdx].right
        curr  == deleteChoice(e, left, right)
        r1    == IF z.root = keyIdx THEN curr ELSE z.root
        e1    == IF z.root = keyIdx THEN e
                 ELSE IF lessThan(key, e[prev].key)
                      THEN [e EXCEPT ![prev].left = curr]
                      ELSE [e EXCEPT ![prev].right = curr]
        e2    == IF curr # SENTINEL THEN [e1 EXCEPT ![curr].parent = prev] ELSE e1
        m     == zip(e2, left, right, prev)
    IN  [entries |-> fixupCount(m[1], m[2], SENTINEL), root |-> r1]

\* a bug: the arena is shrunk only when a node was moved
compact_NoShrinkOfLast(z, keyIdx) ==
    LET e    == z.entries
        last_ == len(e) - 1
    IN  IF keyIdx # last_
        THEN LET e1     == [e EXCEPT ![keyIdx] = e[last_]]
                 left   == e1[keyIdx].left
                 right  == e1[keyIdx].right
                 e2     == IF left # SENTINEL THEN [e1 EXCEPT ![left].parent = keyIdx] ELSE e1
                 e3     == IF right # SENTINEL THEN [e2 EXCEPT ![right].parent = keyIdx] ELSE e2
                 parent == e3[keyIdx].parent
                 e4     == IF parent # SENTINEL
                           THEN IF last_ = e3[parent].left
                                THEN [e3 EXCEPT ![parent].left = keyIdx]
                                ELSE [e3 EXCEPT ![parent].right = keyIdx]
                           ELSE e3
                 r1     == IF last_ = z.root THEN keyIdx ELSE z.root
             IN  [entries |-> Truncate(e4, last_), root |-> r1]
        ELSE z

\* a bug: the freed slot is closed by shifting every later node down one slot
\* (links renumbered to match) instead of moving the last node into it
compact_Shift(z, keyIdx) ==
    LET e     == z.entries
        last_ == len(e) - 1
        sh(h) == IF h # SENTINEL /\ h > keyIdx THEN h - 1 ELSE h
        nd(x) == [x EXCEPT !.left = sh(x.left), !.right = sh(x.right),
                           !.parent = sh(x.parent)]
    IN  [entries |-> [i \in 0..(last_ - 1) |-> nd(IF i < keyIdx THEN e[i] ELSE e[i + 1])],
         root |-> sh(z.root)]

\* a bug: the moved node is copied field by field and its rank is left behind
compact_NoRank(z, keyIdx) ==
    LET e    == z.entries
        last_ == len(e) - 1
    IN  IF keyIdx # last_
        THEN LET e1     == [e EXCEPT ![keyIdx] = [e[last_] EXCEPT !.rank = e[keyIdx].rank]]
                 left   == e1[keyIdx].left
                 right  == e1[keyIdx].right
                 e2     == IF left # SENTINEL THEN [e1 EXCEPT ![left].parent = keyIdx] ELSE e1
                 e3     == IF right # SENTINEL THEN [e2 EXCEPT ![right].parent = keyIdx] ELSE e2
                 parent == e3[keyIdx].parent
                 e4     == IF parent # SENTINEL
                           THEN IF last_ = e3[parent].left
                                THEN [e3 EXCEPT ![parent].left = keyIdx]
                                ELSE [e3 EXCEPT ![parent].right = keyIdx]
                           ELSE e3
                 r1     == IF last_ = z.root THEN keyIdx ELSE z.root
             IN  [entries |-> Truncate(e4, last_), root |-> r1]
        ELSE [entries |-> Truncate(e, last_), root |-> z.root]

\* a bug: the children of the moved node keep pointing at its old slot
compact_NoReparent(z, keyIdx) ==
    LET e    == z.entries
        last_ == len(e) - 1
    IN  IF keyIdx # last_
        THEN LET e3     == [e EXCEPT ![keyIdx] = e[last_]]
                 parent == e3[keyIdx].parent
                 e4     == IF parent # SENTINEL
                           THEN IF last_ = e3[parent].left
                                THEN [e3 EXCEPT ![parent].left = keyIdx]
                                ELSE [e3 EXCEPT ![parent].right = keyIdx]
                           ELSE e3
                 r1     == IF last_ = z.root THEN keyIdx ELSE z.root
             IN  [entries |-> Truncate(e4, last_), root |-> r1]
        ELSE [entries |-> Truncate(e, last_), root |-> z.root]

compact(z, keyIdx) ==
    LET e    == z.entries
        last_ == len(e) - 1
    IN  IF keyIdx # last_
        THEN LET e1     == [e EXCEPT ![keyIdx] = e[last_]]
                 left   == e1[keyIdx].left
                 right  == e1[keyIdx].right
                 e2     == IF left # SENTINEL THEN [e1 EXCEPT ![left].parent = keyIdx] ELSE e1
                 e3     == IF right # SENTINEL THEN [e2 EXCEPT ![right].parent = keyIdx] ELSE e2
                 parent == e3[keyIdx].parent
                 e4     == IF parent # SENTINEL
                           THEN IF last_ = e3[parent].left
                                THEN [e3 EXCEPT ![parent].left = keyIdx]
                                ELSE [e3 EXCEPT ![parent].right = keyIdx]
                           ELSE e3
                 r1     == IF last_ = z.root THEN keyIdx ELSE z.root
             IN  [entries |-> Truncate(e4, last_), root |-> r1]
        ELSE [entries |-> Truncate(e, last_), root |-> z.root]

\* a bug: the node is unlinked but its slot is not given back
deleteInternal_NoCompact(z, keyIdx) ==
    IF keyIdx = SENTINEL THEN <<z, FALSE>>
    ELSE <<deleteIndex(z, keyIdx), TRUE>>

\* <<tree, deleted>>
deleteInternal(z, keyIdx) ==
    IF keyIdx = SENTINEL THEN <<z, FALSE>>
    ELSE <<compact(deleteIndex(z, keyIdx), keyIdx), TRUE>>

(***************************************************************************)
(* Queries.                                                                *)
(***************************************************************************)
RECURSIVE leftLoop(_, _)
leftLoop(e, current) ==
    IF e[current].left # SENTINEL THEN leftLoop(e, e[current].left) ELSE current

RECURSIVE rightLoop(_, _)
rightLoop(e, current) ==
    IF e[current].right # SENTINEL THEN rightLoop(e, e[current].right) ELSE current

leftMost(z) == leftLoop(z.entries, z.root)

rightMost(z) == rightLoop(z.entries, z.root)

minimum(z) == IF z.root = SENTINEL THEN z.root ELSE leftMost(z)

\* a bug: descending, the largest key takes the root's place
maximum_Root(z) == z.root

maximum(z) == IF z.root = SENTINEL THEN z.root ELSE rightMost(z)

RECURSIVE floorLoop_Strict(_, _, _, _)
\* a bug: a node holding the key itself is passed over to the left
floorLoop_Strict(e, cur, res, key) ==
    IF cur = SENTINEL THEN res
    ELSE IF ~lessThan(e[cur].key, key) THEN floorLoop_Strict(e, e[cur].left, res, key)
    ELSE floorLoop_Strict(e, e[cur].right, cur, key)

RECURSIVE floorLoop(_, _, _, _)
\* for root != SENTINEL: left when key < node's key, else keep the node and go right
floorLoop(e, cur, res, key) ==
    IF cur = SENTINEL THEN res
    ELSE IF lessThan(key, e[cur].key) THEN floorLoop(e, e[cur].left, res, key)
    ELSE floorLoop(e, e[cur].right, cur, key)

floor(z, key) == floorLoop(z.entries, z.root, SENTINEL, key)

RECURSIVE ceilingLoop_KeepFirst(_, _, _, _)
\* a bug: only the first candidate met on the way down is kept
ceilingLoop_KeepFirst(e, cur, res, key) ==
    IF cur = SENTINEL THEN res
    ELSE IF lessThan(e[cur].key, key) THEN ceilingLoop_KeepFirst(e, e[cur].right, res, key)
    ELSE ceilingLoop_KeepFirst(e, e[cur].left, IF res = SENTINEL THEN cur ELSE res, key)

RECURSIVE ceilingLoop(_, _, _, _)
\* for root != SENTINEL: right when node's key < key, else keep the node and go left
ceilingLoop(e, cur, res, key) ==
    IF cur = SENTINEL THEN res
    ELSE IF lessThan(e[cur].key, key) THEN ceilingLoop(e, e[cur].right, res, key)
    ELSE ceilingLoop(e, e[cur].left, cur, key)

ceiling(z, key) == ceilingLoop(z.entries, z.root, SENTINEL, key)

RECURSIVE upperBoundLoop_NotStrict(_, _, _, _)
\* a bug: the comparison of ceiling is used, so a node holding the key is kept
upperBoundLoop_NotStrict(e, cur, res, key) ==
    IF cur = SENTINEL THEN res
    ELSE IF lessThan(e[cur].key, key) THEN upperBoundLoop_NotStrict(e, e[cur].right, res, key)
    ELSE upperBoundLoop_NotStrict(e, e[cur].left, cur, key)

RECURSIVE upperBoundLoop(_, _, _, _)
\* for root != SENTINEL: right when !(key < node's key), else keep the node and go left
upperBoundLoop(e, cur, res, key) ==
    IF cur = SENTINEL THEN res
    ELSE IF ~lessThan(key, e[cur].key) THEN upperBoundLoop(e, e[cur].right, res, key)
    ELSE upperBoundLoop(e, e[cur].left, cur, key)

upperBound(z, key) == upperBoundLoop(z.entries, z.root, SENTINEL, key)

lowerBound(z, key) == ceiling(z, key)

RECURSIVE atIndexLoop_OffByOne(_, _, _)
\* a bug: going right, the node itself is not taken off the index
atIndexLoop_OffByOne(e, cur, idx) ==
    IF cur = SENTINEL THEN cur
    ELSE LET left == e[cur].left
             leftCount == IF left # SENTINEL THEN e[left].count ELSE 0
         IN  IF idx < leftCount THEN atIndexLoop_OffByOne(e, left, idx)
             ELSE IF idx > leftCount
                  THEN atIndexLoop_OffByOne(e, e[cur].right, idx - leftCount)
                  ELSE cur

atIndex_OffByOne(z, idx) == atIndexLoop_OffByOne(z.entries, z.root, idx)

RECURSIVE atIndexLoop_Clamp(_, _, _)
\* a bug: an index past the last key answers the last node on the path
atIndexLoop_Clamp(e, cur, idx) ==
    IF cur = SENTINEL THEN cur
    ELSE LET left == e[cur].left
             leftCount == IF left # SENTINEL THEN e[left].count ELSE 0
         IN  IF idx < leftCount THEN atIndexLoop_Clamp(e, left, idx)
             ELSE IF idx > leftCount
                  THEN IF e[cur].right = SENTINEL THEN cur
                       ELSE atIndexLoop_Clamp(e, e[cur].right, idx - leftCount - 1)
                  ELSE cur

RECURSIVE atIndexLoop(_, _, _)
atIndexLoop(e, cur, idx) ==
    IF cur = SENTINEL THEN cur
    ELSE LET left == e[cur].left
             leftCount == IF left # SENTINEL THEN e[left].count ELSE 0
         IN  IF idx < leftCount THEN atIndexLoop(e, left, idx)
             ELSE IF idx > leftCount
                  THEN atIndexLoop(e, e[cur].right, idx - leftCount - 1)
                  ELSE cur

atIndex(z, idx) == atIndexLoop(z.entries, z.root, idx)

RECURSIVE indexOfLoop_NoSelf(_, _, _, _)
\* a bug: going right, the node itself is not counted
indexOfLoop_NoSelf(e, cur, res, key) ==
    IF cur = SENTINEL THEN NOT_FOUND
    ELSE LET left == e[cur].left
         IN  IF lessThan(key, e[cur].key) THEN indexOfLoop_NoSelf(e, left, res, key)
             ELSE LET res1 == IF left # SENTINEL THEN res + e[left].count ELSE res
                  IN  IF lessThan(e[cur].key, key)
                      THEN indexOfLoop_NoSelf(e, e[cur].right, res1, key)
                      ELSE res1

indexOf_NoSelf(z, key) == indexOfLoop_NoSelf(z.entries, z.root, 0, key)

RECURSIVE indexOfLoop(_, _, _, _)
indexOfLoop(e, cur, res, key) ==
    IF cur = SENTINEL THEN NOT_FOUND
    ELSE LET left == e[cur].left
         IN  IF lessThan(key, e[cur].key) THEN indexOfLoop(e, left, res, key)
             ELSE LET res1 == IF left # SENTINEL THEN res + e[left].count ELSE res
                  IN  IF lessThan(e[cur].key, key)
                      THEN indexOfLoop(e, e[cur].right, res1 + 1, key)
                      ELSE res1

indexOf(z, key) == indexOfLoop(z.entries, z.root, 0, key)

Size(z) == len(z.entries)

Count(z) == IF z.root = SENTINEL THEN 0 ELSE z.entries[z.root].count

(***************************************************************************)
(* The iterator: a current handle into the arena it was obtained from.     *)
(* `origin` and `steps` record, for the properties, which call produced    *)
(* the cursor and how many times it has moved since.                       *)
(***************************************************************************)
ZipIterator(current, origin) == [current |-> current, origin |-> origin, steps |-> 0]

NoIterator == ZipIterator(SENTINEL, "none")

IsEmpty(it) == it.current = SENTINEL

\* ZipIterator.Key: the zero key for an empty cursor
Key(e, it) == IF it.current # SENTINEL THEN e[it.current].key ELSE 0

\* a bug: the climb stops at the first parent
climbRight_Once(e, r, parent) == parent

RECURSIVE climbRight(_, _, _)
\* for parent != SENTINEL && entries[parent].right == root { root = parent; parent = ... }
climbRight(e, r, parent) ==
    IF parent # SENTINEL /\ e[parent].right = r
    THEN climbRight(e, parent, e[parent].parent)
    ELSE parent

\* a bug: the climb stops at the first parent
climbLeft_Once(e, r, parent) == parent

RECURSIVE climbLeft(_, _, _)
climbLeft(e, r, parent) ==
    IF parent # SENTINEL /\ e[parent].left = r
    THEN climbLeft(e, parent, e[parent].parent)
    ELSE parent

\* the handle ZipIterator.Next leaves in current
next(e, current) ==
    IF current = SENTINEL THEN current
    ELSE IF e[current].right # SENTINEL THEN leftLoop(e, e[current].right)
    ELSE climbRight(e, current, e[current].parent)

\* the handle ZipIterator.Prev leaves in current
prev(e, current) ==
    IF current = SENTINEL THEN current
    ELSE IF e[current].left # SENTINEL THEN rightLoop(e, e[current].left)
    ELSE climbLeft(e, current, e[current].parent)

(***************************************************************************)
(* The keyed map: the tree and a value array aligned with the arena.       *)
(***************************************************************************)
NewValues == [i \in 0..(0 - 1) |-> 0]

\* MapIterator.Value: the zero value for an empty cursor
Value(vs, it) == IF it.current # SENTINEL THEN vs[it.current] ELSE 0

\* a bug: the value of the last slot is not moved into the freed slot
deleteInternalWithValue_NoMove(z, vs, keyIdx) ==
    LET d == deleteInternal(z, keyIdx)
        last_ == len(vs) - 1
    IN  IF d[2] THEN <<d[1], Truncate(vs, last_), TRUE>> ELSE <<d[1], vs, FALSE>>

\* <<tree, values, deleted>>
deleteInternalWithValue(z, vs, keyIdx) ==
    LET d == deleteInternal(z, keyIdx)
        last_ == len(vs) - 1
    IN  IF d[2]
        THEN LET v1 == IF keyIdx # last_ THEN [vs EXCEPT ![keyIdx] = vs[last_]] ELSE vs
             IN  <<d[1], Truncate(v1, last_), TRUE>>
        ELSE <<d[1], vs, FALSE>>

(***************************************************************************)
(* The state machine: one instance, a ZipTree or a Map, and the calls a    *)
(* single-threaded client makes on it.  A cursor is used only before the   *)
(* next mutation; a mutation leaves the client without a cursor.           *)
(***************************************************************************)
Z == [entries |-> entries, root |-> root]

\* the last call the client made: its name, its key and value arguments (0 when it
\* has none) and its boolean result (FALSE when it has none)
Call(op, key, val, ret) == [op |-> op, key |-> key, val |-> val, ret |-> ret]

Init ==
    /\ kind \in {"tree", "map"}
    /\ entries = NewZipTree.entries
    /\ root = NewZipTree.root
    /\ values = NewValues
    /\ iter = NoIterator
    /\ last = Call("New", 0, 0, FALSE)

\* ZipTree.Insert(key)
Insert(key) ==
    /\ kind = "tree"
    /\ IF find(Z, key) = SENTINEL
       THEN /\ len(entries) < MaxSize
            /\ \E d \in RankDraws(len(entries)) :
                  LET z2 == insert(Z, key, packRank(d[1], d[2]))
                  IN  entries' = z2.entries /\ root' = z2.root
            /\ last' = Call("Insert", key, 0, TRUE)
       ELSE /\ UNCHANGED <<entries, root>>
            /\ last' = Call("Insert", key, 0, FALSE)
    /\ iter' = NoIterator
    /\ UNCHANGED <<values, kind>>

\* a bug: a present key keeps its old value
Put_NoOverwrite(key, value) ==
    /\ kind = "map"
    /\ LET found == find(Z, key)
       IN  IF found = SENTINEL
           THEN /\ len(entries) < MapMaxSize
                /\ \E d \in RankDraws(len(entries)) :
                      LET z2 == insert(Z, key, packRank(d[1], d[2]))
                      IN  entries' = z2.entries /\ root' = z2.root
                /\ values' = Append0(values, value)
                /\ last' = Call("Put", key, value, TRUE)
           ELSE /\ UNCHANGED <<entries, root, values>>
                /\ last' = Call("Put", key, value, FALSE)
    /\ iter' = NoIterator
    /\ UNCHANGED kind

\* Map.Put(key, value)
Put(key, value) ==
    /\ kind = "map"
    /\ LET found == find(Z, key)
       IN  IF found = SENTINEL
           THEN /\ len(entries) < MapMaxSize
                /\ \E d \in RankDraws(len(entries)) :
                      LET z2 == insert(Z, key, packRank(d[1], d[2]))
                      IN  entries' = z2.entries /\ root' = z2.root
                /\ values' = Append0(values, value)
                /\ last' = Call("Put", key, value, TRUE)
           ELSE /\ UNCHANGED <<entries, root>>
                /\ values' = [values EXCEPT ![found] = value]
                /\ last' = Call("Put", key, value, FALSE)
    /\ iter' = NoIterator
    /\ UNCHANGED kind

\* ZipTree.Delete(key)
Delete(key) ==
    /\ kind = "tree"
    /\ LET d == deleteInternal(Z, find(Z, key))
       IN  /\ entries' = d[1].entries
           /\ root' = d[1].root
           /\ last' = Call("Delete", key, 0, d[2])
    /\ iter' = NoIterator
    /\ UNCHANGED <<values, kind>>

\* ZipTree.DeleteIter(iter), with the cursor the client holds
DeleteIter ==
    /\ kind = "tree"
    /\ iter.origin # "none"
    /\ LET d == deleteInternal(Z, iter.current)
       IN  /\ entries' = d[1].entries
           /\ root' = d[1].root
           /\ last' = Call("DeleteIter", Key(entries, iter), 0, d[2])
    /\ iter' = NoIterator
    /\ UNCHANGED <<values, kind>>

\* Map.Delete(key)
MapDelete(key) ==
    /\ kind = "map"
    /\ LET d == deleteInternalWithValue(Z, values, find(Z, key))
       IN  /\ entries' = d[1].entries
           /\ root' = d[1].root
           /\ values' = d[2]
           /\ last' = Call("Delete", key, 0, d[3])
    /\ iter' = NoIterator
    /\ UNCHANGED kind

\* Map.DeleteIter(iter), with the cursor the client holds
MapDeleteIter ==
    /\ kind = "map"
    /\ iter.origin # "none"
    /\ LET d == deleteInternalWithValue(Z, values, iter.current)
       IN  /\ entries' = d[1].entries
           /\ root' = d[1].root
           /\ values' = d[2]
           /\ last' = Call("DeleteIter", Key(entries, iter), 0, d[3])
    /\ iter' = NoIterator
    /\ UNCHANGED kind

\* ZipTree.NewIterator / Map.NewIterator
NewIterator ==
    /\ iter' = ZipIterator(IF root = SENTINEL THEN SENTINEL ELSE leftMost(Z), "NewIterator")
    /\ last' = Call("NewIterator", 0, 0, FALSE)
    /\ UNCHANGED <<entries, root, values, kind>>

\* ZipIterator.Next on the cursor the client holds
Next_ ==
    /\ iter.origin # "none"
    /\ iter' = IF IsEmpty(iter) THEN iter
               ELSE [iter EXCEPT !.current = next(entries, iter.current),
                                 !.steps = iter.steps + 1]
    /\ last' = Call("Next", 0, 0, FALSE)
    /\ UNCHANGED <<entries, root, values, kind>>

Next ==
    \/ \E k \in Keys : Insert(k)
    \/ \E k \in Keys, v \in Vals : Put(k, v)
    \/ \E k \in Keys : Delete(k)
    \/ DeleteIter
    \/ \E k \in Keys : MapDelete(k)
    \/ MapDeleteIter
    \/ NewIterator
    \/ Next_

Spec == Init /\ [][Next]_vars

(***************************************************************************)
(* The same client walking the keys backwards.                             *)
(***************************************************************************)
\* ZipTree.NewPrevIterator / Map.NewPrevIterator
NewPrevIterator ==
    /\ iter' = ZipIterator(IF root = SENTINEL THEN SENTINEL ELSE rightMost(Z),
                           "NewPrevIterator")
    /\ last' = Call("NewPrevIterator", 0, 0, FALSE)
    /\ UNCHANGED <<entries, root, values, kind>>

\* ZipIterator.Prev on the cursor the client holds
Prev_ ==
    /\ iter.origin # "none"
    /\ iter' = IF IsEmpty(iter) THEN iter
               ELSE [iter EXCEPT !.current = prev(entries, iter.current),
                                 !.steps = iter.steps + 1]
    /\ last' = Call("Prev", 0, 0, FALSE)
    /\ UNCHANGED <<entries, root, values, kind>>

RevNext ==
    \/ \E k \in Keys : Insert(k)
    \/ \E k \in Keys, v \in Vals : Put(k, v)
    \/ \E k \in Keys : Delete(k)
    \/ DeleteIter
    \/ \E k \in Keys : MapDelete(k)
    \/ MapDeleteIter
    \/ NewPrevIterator
    \/ Prev_

RevSpec == Init /\ [][RevNext]_vars

(***************************************************************************)
(* The same client obtaining a cursor from a query and using it, if at     *)
(* all, before its next mutation.                                          *)
(***************************************************************************)
\* ZipTree.Minimum / Map.Minimum
Minimum ==
    /\ iter' = ZipIterator(minimum(Z), "Minimum")
    /\ last' = Call("Minimum", 0, 0, FALSE)
    /\ UNCHANGED <<entries, root, values, kind>>

\* ZipTree.Maximum / Map.Maximum
Maximum ==
    /\ iter' = ZipIterator(maximum(Z), "Maximum")
    /\ last' = Call("Maximum", 0, 0, FALSE)
    /\ UNCHANGED <<entries, root, values, kind>>

\* ZipTree.Find(key) / Map.Find(key)
Find(key) ==
    /\ iter' = ZipIterator(find(Z, key), "Find")
    /\ last' = Call("Find", key, 0, FALSE)
    /\ UNCHANGED <<entries, root, values, kind>>

\* ZipTree.AtIndex(idx) / Map.AtIndex(idx); the index is recorded as the call's key
AtIndex(idx) ==
    /\ iter' = ZipIterator(atIndex(Z, idx), "AtIndex")
    /\ last' = Call("AtIndex", idx, 0, FALSE)
    /\ UNCHANGED <<entries, root, values, kind>>

CursorNext ==
    \/ \E k \in Keys : Insert(k)
    \/ \E k \in Keys, v \in Vals : Put(k, v)
    \/ \E k \in Keys : Delete(k)
    \/ DeleteIter
    \/ \E k \in Keys : MapDelete(k)
    \/ MapDeleteIter
    \/ Minimum
    \/ Maximum
    \/ \E k \in Keys : Find(k)
    \/ \E i \in 0..MaxSize : AtIndex(i)

CursorSpec == Init /\ [][CursorNext]_vars

(***************************************************************************)
(* A client that keeps a cursor across its own Insert and Delete calls.    *)
(* Nothing in a cursor changes when the tree does: it keeps the handle it  *)
(* was made with.  `key` records the key the cursor was obtained for.      *)
(***************************************************************************)
Held(current, origin, key) ==
    [current |-> current, origin |-> origin, steps |-> 0, key |-> key]

\* ZipTree.Find(key), the cursor kept
StaleFind(key) ==
    /\ kind = "tree"
    /\ iter' = Held(find(Z, key), "Find", key)
    /\ last' = Call("Find", key, 0, FALSE)
    /\ UNCHANGED <<entries, root, values, kind>>

\* ZipTree.Insert(key), whatever cursor the client holds
StaleInsert(key) ==
    /\ kind = "tree"
    /\ IF find(Z, key) = SENTINEL
       THEN /\ len(entries) < StaleMaxSize
            /\ \E d \in RankDraws(len(entries)) :
                  LET z2 == insert(Z, key, packRank(d[1], d[2]))
                  IN  entries' = z2.entries /\ root' = z2.root
            /\ last' = Call("Insert", key, 0, TRUE)
       ELSE /\ UNCHANGED <<entries, root>>
            /\ last' = Call("Insert", key, 0, FALSE)
    /\ UNCHANGED <<values, kind, iter>>

\* ZipTree.Delete(key), whatever cursor the client holds
StaleDelete(key) ==
    /\ kind = "tree"
    /\ LET d == deleteInternal(Z, find(Z, key))
       IN  /\ entries' = d[1].entries
           /\ root' = d[1].root
           /\ last' = Call("Delete", key, 0, d[2])
    /\ UNCHANGED <<values, kind, iter>>

\* ZipTree.DeleteIter(iter) with the kept cursor: deleteInternal is handed
\* iter.Index().  A handle at or past the end of the arena makes deleteIndex's
\* first read, z.entries[curr], panic with an index out of range before anything
\* is written; the call then has no result.
StaleDeleteIter ==
    /\ kind = "tree"
    /\ iter.origin # "none"
    /\ IF iter.current # SENTINEL /\ iter.current >= len(entries)
       THEN /\ last' = Call("DeleteIterPanic", iter.key, 0, FALSE)
            /\ UNCHANGED <<entries, root>>
       ELSE LET d == deleteInternal(Z, iter.current)
            IN  /\ entries' = d[1].entries
                /\ root' = d[1].root
                /\ last' = Call("DeleteIter", iter.key, 0, d[2])
    /\ iter' = NoIterator
    /\ UNCHANGED <<values, kind>>

StaleNext ==
    \/ \E k \in Keys : StaleFind(k)
    \/ \E k \in Keys : StaleInsert(k)
    \/ \E k \in Keys : StaleDelete(k)
    \/ StaleDeleteIter

StaleSpec == Init /\ [][StaleNext]_vars

(***************************************************************************)
(* A client of the Map that also calls the value-less Insert.              *)
(***************************************************************************)
MapInit ==
    /\ kind = "map"
    /\ entries = NewZipTree.entries
    /\ root = NewZipTree.root
    /\ values = NewValues
    /\ iter = NoIterator
    /\ last = Call("New", 0, 0, FALSE)

\* a bug: the call is passed on to the tree, and no value is stored
MapInsert_Forward(key) ==
    /\ kind = "map"
    /\ IF find(Z, key) = SENTINEL
       THEN /\ len(entries) < MapMaxSize
            /\ \E d \in RankDraws(len(entries)) :
                  LET z2 == insert(Z, key, packRank(d[1], d[2]))
                  IN  entries' = z2.entries /\ root' = z2.root
            /\ last' = Call("Insert", key, 0, TRUE)
       ELSE /\ UNCHANGED <<entries, root>>
            /\ last' = Call("Insert", key, 0, FALSE)
    /\ UNCHANGED <<values, kind, iter>>

\* Map.Insert(key): panic("not supported for map"); the call has no result and
\* nothing is read or written before the panic
MapInsert(key) ==
    /\ kind = "map"
    /\ last' = Call("InsertPanic", key, 0, FALSE)
    /\ UNCHANGED <<entries, root, values, kind, iter>>

MapNext ==
    \/ \E k \in Keys, v \in Vals : Put(k, v)
    \/ \E k \in Keys : MapDelete(k)
    \/ MapDeleteIter
    \/ NewIterator
    \/ Next_
    \/ \E k \in Keys : MapInsert(k)

MapSpec == MapInit /\ [][MapNext]_vars

(***************************************************************************)
(* The rank computation of insert at full width.  A uint32 is the pair     *)
(* <<high half, low half>> of its 16-bit halves, so that sizes up to       *)
(* 2^32 - 2 and ranks with r1 up to 65535 are computed as the machine      *)
(* computes them: additions carry and wrap, shifts drop the bits pushed    *)
(* out, and comparison is the unsigned comparison of the words.            *)
(***************************************************************************)
\* 2^16, the radix of the halves; rank := r1<<16 | (1 + r2) moves r1 up one half
Half == 65536

\* the uint32 of a natural below 2^31
U32(x) == <<x \div Half, x % Half>>

\* x + 1 in uint32
inc32(w) ==
    IF w[2] + 1 < Half THEN <<w[1], w[2] + 1>>
    ELSE <<(w[1] + 1) % Half, 0>>

\* bits.Len32 of a uint32
Len32W(w) == IF w[1] > 0 THEN 16 + Len32(w[1]) ELSE Len32(w[2])

\* x << 16 in uint32: the low half moves up, the high half is shifted out
shl16(w) == <<w[2], 0>>

\* x << 8 in uint32
shl8(w) == <<(w[1] * 256 + w[2] \div 256) % Half, (w[2] * 256) % Half>>

\* x | y in uint32
or32(a, b) == <<BitOr(a[1], b[1]), BitOr(a[2], b[2])>>

\* x < y in uint32
lt32(a, b) == a[1] < b[1] \/ (a[1] = b[1] /\ a[2] < b[2])

\* uint32(logOfN * logOfN * logOfN) with logOfN := bits.Len32(n+1) - 1, for n > 0
r2Bound32(n) == LET logOfN == Len32W(inc32(n)) - 1 IN U32(logOfN * logOfN * logOfN)

\* a bug: r1 is shifted by one byte only
pack32_Shift8(r1, r2) == or32(shl8(r1), inc32(r2))

\* rank := r1<<16 | (1 + r2)
pack32(r1, r2) == or32(shl16(r1), inc32(r2))

\* 2^j as a uint32, j < 32
Pow2W(j) == IF j < 16 THEN <<0, 2^j>> ELSE <<2^(j - 16), 0>>

\* x - 1 in uint32, x > 0
dec32(w) == IF w[2] > 0 THEN <<w[1], w[2] - 1>> ELSE <<w[1] - 1, Half - 1>>

\* the arena sizes the rank computation is run on: around every power of two, and
\* the greatest sizes a uint32 handle space allows
SizeSamples ==
    ({Pow2W(j) : j \in 1..31} \cup {dec32(Pow2W(j)) : j \in 1..31}
        \cup {dec32(dec32(Pow2W(j))) : j \in 2..31}
        \cup {<<Half - 1, Half - 2>>, <<Half - 1, Half - 3>>, <<Half - 1, 0>>})

\* the coin-flip counts and tie-break draws the packing is run on
R1Samples == {0, 1, 2, 255, 256, 32767, 32768, Half - 2, Half - 1}

R2Samples == {0, 1, 2, 7, 255, 256, 4095, 29789, 29790}

RankInit ==
    /\ kind = "tree"
    /\ entries = NewZipTree.entries
    /\ root = NewZipTree.root
    /\ values = NewValues
    /\ iter = NoIterator
    /\ \/ \E n \in SizeSamples : last = [op |-> "size", n |-> n]
       \/ \E a, b \in R1Samples \X R2Samples : last = [op |-> "draws", a |-> a, b |-> b]

\* lines 61-66 of insert on an arena of last.n nodes: the bound of the r2 draw
RankBound ==
    /\ last.op = "size"
    /\ last' = [op |-> "bound", n |-> last.n, L |-> r2Bound32(last.n)]
    /\ UNCHANGED <<entries, root, values, kind, iter>>

\* line 67 of insert for two draws: the two packed ranks, and what the descent's
\* comparisons rank < rank' and rank == rank' give for them
RankPack ==
    /\ last.op = "draws"
    /\ LET ra == pack32(U32(last.a[1]), U32(last.a[2]))
           rb == pack32(U32(last.b[1]), U32(last.b[2]))
       IN  last' = [op |-> "packed", a |-> last.a, b |-> last.b, ra |-> ra, rb |-> rb,
                    less |-> lt32(ra, rb), equal |-> (ra = rb)]
    /\ UNCHANGED <<entries, root, values, kind, iter>>

RankNext == RankBound \/ RankPack

RankSpec == RankInit /\ [][RankNext]_vars

(***************************************************************************)
(* A client that fills and drains a tree: it inserts keys it does not hold *)
(* and deletes keys it holds.  Beside the call, `last` records the         *)
(* client's own books: the set of keys it has inserted and not deleted,    *)
(* and the number of deletes it has made since its last insert.            *)
(***************************************************************************)
Track(call, live, drained) ==
    [op |-> call.op, key |-> call.key, val |-> call.val, ret |-> call.ret,
     live |-> live, drained |-> drained]

DrainInit ==
    /\ kind = "tree"
    /\ entries = NewZipTree.entries
    /\ root = NewZipTree.root
    /\ values = NewValues
    /\ iter = NoIterator
    /\ last = Track(Call("New", 0, 0, FALSE), {}, 0)

\* ZipTree.Insert(key) of a key the client does not hold
DrainInsert(key) ==
    /\ key \notin last.live
    /\ len(entries) < MaxSize
    /\ IF find(Z, key) = SENTINEL
       THEN /\ \E d \in RankDraws(len(entries)) :
                  LET z2 == insert(Z, key, packRank(d[1], d[2]))
                  IN  entries' = z2.entries /\ root' = z2.root
            /\ last' = Track(Call("Insert", key, 0, TRUE), last.live \cup {key}, 0)
       ELSE /\ UNCHANGED <<entries, root>>
            /\ last' = Track(Call("Insert", key, 0, FALSE), last.live \cup {key}, 0)
    /\ UNCHANGED <<values, kind, iter>>

\* ZipTree.Delete(key) of a key the client holds
DrainDelete(key) ==
    /\ key \in last.live
    /\ LET d == deleteInternal(Z, find(Z, key))
       IN  /\ entries' = d[1].entries
           /\ root' = d[1].root
           /\ last' = Track(Call("Delete", key, 0, d[2]), last.live \ {key},
                            last.drained + 1)
    /\ UNCHANGED <<values, kind, iter>>

DrainNext ==
    \/ \E k \in Keys : DrainInsert(k)
    \/ \E k \in Keys : DrainDelete(k)

DrainSpec == DrainInit /\ [][DrainNext]_vars

(***************************************************************************)
(* The injected random source.  Every call of Int32N(2) or Uint32N(bound)  *)
(* is one draw; the outcomes are the source's to choose.  flips is the     *)
(* sequence of outcomes the coming Int32N(2) calls return, u the outcome   *)
(* the coming Uint32N call returns.  The number of draws a call has made   *)
(* is kept with the call in last.                                          *)
(***************************************************************************)
\* the coin outcomes ahead, with a 0 among the first MaxR1 + 1
Flips == {f \in [1..(MaxR1 + 1) -> 0..1] : \E i \in 1..(MaxR1 + 1) : f[i] = 0}

RECURSIVE coinLoop(_, _, _)
\* for z.randomGenerator.Int32N(2) != 0 { r1++ }; pos is the draw being made.
\* Returns <<r1, draws made>>.
coinLoop(flips, pos, r1) ==
    IF flips[pos] # 0 THEN coinLoop(flips, pos + 1, r1 + 1) ELSE <<r1, pos>>

\* a bug: r2 is drawn for the first node too
r2Draw_Always(n, u) == <<u, 1>>

\* r2 := 0; if n > 0 { r2 = Uint32N(logOfN^3) }.  Returns <<r2, draws made>>.
r2Draw(n, u) == IF n > 0 THEN <<u, 1>> ELSE <<0, 0>>

\* the rank part of insert, with the draws it made
drawRank(n, flips, u) ==
    LET c == coinLoop(flips, 1, 0)
        g == r2Draw(n, u)
    IN  [rank |-> packRank(c[1], g[1]), r1 |-> c[1], r2 |-> g[1],
         coins |-> c[2], r2s |-> g[2]]

\* the outcomes Uint32N can return for an arena of n nodes
R2Outcomes(n) == {u \in 0..MaxR2 : n > 0 => u < r2Bound(n)}

\* a call with the draws it made
Drew(call, r1, r2, coins, r2s) ==
    [op |-> call.op, key |-> call.key, val |-> call.val, ret |-> call.ret,
     r1 |-> r1, r2 |-> r2, coins |-> coins, r2s |-> r2s]

RandInit ==
    /\ kind \in {"tree", "map"}
    /\ entries = NewZipTree.entries
    /\ root = NewZipTree.root
    /\ values = NewValues
    /\ iter = NoIterator
    /\ last = Drew(Call("New", 0, 0, FALSE), 0, 0, 0, 0)

\* ZipTree.Insert(key)
RandInsert(key) ==
    /\ kind = "tree"
    /\ IF find(Z, key) = SENTINEL
       THEN /\ len(entries) < MaxSize
            /\ \E flips \in Flips, u \in R2Outcomes(len(entries)) :
                  LET d  == drawRank(len(entries), flips, u)
                      z2 == insert(Z, key, d.rank)
                  IN  /\ entries' = z2.entries /\ root' = z2.root
                      /\ last' = Drew(Call("Insert", key, 0, TRUE),
                                      d.r1, d.r2, d.coins, d.r2s)
       ELSE /\ UNCHANGED <<entries, root>>
            /\ last' = Drew(Call("Insert", key, 0, FALSE), 0, 0, 0, 0)
    /\ iter' = NoIterator
    /\ UNCHANGED <<values, kind>>

\* Map.Put(key, value)
RandPut(key, value) ==
    /\ kind = "map"
    /\ LET found == find(Z, key)
       IN  IF found = SENTINEL
           THEN /\ len(entries) < MapMaxSize
                /\ \E flips \in Flips, u \in R2Outcomes(len(entries)) :
                      LET d  == drawRank(len(entries), flips, u)
                          z2 == insert(Z, key, d.rank)
                      IN  /\ entries' = z2.entries /\ root' = z2.root
                          /\ last' = Drew(Call("Put", key, value, TRUE),
                                          d.r1, d.r2, d.coins, d.r2s)
                /\ values' = Append0(values, value)
           ELSE /\ UNCHANGED <<entries, root>>
                /\ values' = [values EXCEPT ![found] = value]
                /\ last' = Drew(Call("Put", key, value, FALSE), 0, 0, 0, 0)
    /\ iter' = NoIterator
    /\ UNCHANGED kind

\* ZipTree.Delete(key)
RandDelete(key) ==
    /\ kind = "tree"
    /\ LET d == deleteInternal(Z, find(Z, key))
       IN  /\ entries' = d[1].entries
           /\ root' = d[1].root
           /\ last' = Drew(Call("Delete", key, 0, d[2]), 0, 0, 0, 0)
    /\ iter' = NoIterator
    /\ UNCHANGED <<values, kind>>

\* Map.Delete(key)
RandMapDelete(key) ==
    /\ kind = "map"
    /\ LET d == deleteInternalWithValue(Z, values, find(Z, key))
       IN  /\ entries' = d[1].entries
           /\ root' = d[1].root
           /\ values' = d[2]
           /\ last' = Drew(Call("Delete", key, 0, d[3]), 0, 0, 0, 0)
    /\ iter' = NoIterator
    /\ UNCHANGED kind

\* ZipTree.Find(key) / Map.Find(key)
RandFind(key) ==
    /\ iter' = ZipIterator(find(Z, key), "Find")
    /\ last' = Drew(Call("Find", key, 0, FALSE), 0, 0, 0, 0)
    /\ UNCHANGED <<entries, root, values, kind>>

RandNext ==
    \/ \E k \in Keys : RandInsert(k)
    \/ \E k \in Keys, v \in Vals : RandPut(k, v)
    \/ \E k \in Keys : RandDelete(k)
    \/ \E k \in Keys : RandMapDelete(k)
    \/ \E k \in Keys : RandFind(k)

RandSpec == RandInit /\ [][RandNext]_vars

(***************************************************************************)
(* The calls step by step.  One action is one iteration of one loop of the *)
(* code, or the straight-line code between two loops.  The running call's  *)
(* position (pc) and its local variables are kept with the call in last;   *)
(* z0 is the tree the call started from.                                   *)
(***************************************************************************)
Frame0 ==
    [op |-> "New", key |-> 0, val |-> 0, ret |-> FALSE,
     pc |-> "idle", back |-> "none",
     rank |-> 0, r1 |-> 0, idx |-> SENTINEL, keyIdx |-> SENTINEL,
     curr |-> SENTINEL, prev |-> SENTINEL, fix |-> SENTINEL,
     left |-> SENTINEL, right |-> SENTINEL, other |-> 0, limit |-> SENTINEL,
     z0 |-> NewZipTree]

\* the call has returned
Return(op, ret) == [Frame0 EXCEPT !.op = op, !.ret = ret]

\* the call has started
Enter(op, key, pc, z) == [Frame0 EXCEPT !.op = op, !.key = key, !.pc = pc, !.z0 = z]

\* a cursor as the calls of this part hand it out
Cursor(current) == ZipIterator(current, "cursor")

TermInit ==
    /\ kind = "tree"
    /\ entries = NewZipTree.entries
    /\ root = NewZipTree.root
    /\ values = NewValues
    /\ iter = NoIterator
    /\ last = Frame0

\* ZipTree.Insert(key): found := z.find(key)
TermInsert(key) ==
    /\ last.pc = "idle"
    /\ len(entries) < TermMaxSize
    /\ last' = [Enter("Insert", key, "find", Z) EXCEPT !.curr = root]
    /\ iter' = NoIterator
    /\ UNCHANGED <<entries, root, values, kind>>

\* ZipTree.Delete(key): z.deleteInternal(z.find(key))
TermDelete(key) ==
    /\ last.pc = "idle"
    /\ last' = [Enter("Delete", key, "find", Z) EXCEPT !.curr = root]
    /\ iter' = NoIterator
    /\ UNCHANGED <<entries, root, values, kind>>

\* ZipTree.Find(key)
TermFind(key) ==
    /\ last.pc = "idle"
    /\ last' = [Enter("Find", key, "find", Z) EXCEPT !.curr = root]
    /\ iter' = NoIterator
    /\ UNCHANGED <<entries, root, values, kind>>

\* the search loop of find goes on from curr
findCond(e, curr, key) ==
    curr # SENTINEL /\ (lessThan(key, e[curr].key) \/ lessThan(e[curr].key, key))

\* one iteration of the loop of find
FindStep ==
    /\ last.pc = "find"
    /\ findCond(entries, last.curr, last.key)
    /\ last' = [last EXCEPT !.curr = IF lessThan(last.key, entries[last.curr].key)
                                     THEN entries[last.curr].left
                                     ELSE entries[last.curr].right]
    /\ UNCHANGED <<entries, root, values, kind, iter>>

\* find returns; the caller goes on with the handle found
FindDone ==
    /\ last.pc = "find"
    /\ ~findCond(entries, last.curr, last.key)
    /\ CASE last.op = "Find" ->
              /\ iter' = Cursor(last.curr)
              /\ last' = Return("Find", FALSE)
         [] last.op = "Insert" ->
              /\ iter' = iter
              /\ last' = IF last.curr = SENTINEL
                         THEN [last EXCEPT !.pc = "coin", !.curr = SENTINEL]
                         ELSE Return("Insert", FALSE)
         [] last.op = "Delete" ->
              /\ iter' = iter
              /\ last' = IF last.curr = SENTINEL
                         THEN Return("Delete", FALSE)
                         ELSE [last EXCEPT !.pc = "deleteIndex", !.keyIdx = last.curr,
                                           !.curr = SENTINEL]
    /\ UNCHANGED <<entries, root, values, kind>>

\* the coin loop goes on after this outcome of Int32N(2)
coinCond(bit) == bit # 0

\* Int32N(2) returns heads: r1++
Heads ==
    /\ last.pc = "coin"
    /\ coinCond(1)
    /\ last.r1 < TermMaxR1
    /\ last' = [last EXCEPT !.r1 = last.r1 + 1]
    /\ UNCHANGED <<entries, root, values, kind, iter>>

\* Int32N(2) returns tails: the loop ends, r2 is drawn, the node is appended
Tails ==
    /\ last.pc = "coin"
    /\ ~coinCond(0)
    /\ \E u \in R2Outcomes(len(entries)) :
          LET g    == r2Draw(len(entries), u)
              rank == packRank(last.r1, g[1])
          IN  /\ entries' = Append0(entries, ZipNode(last.key, rank))
              /\ last' = [last EXCEPT !.pc = "descent", !.rank = rank,
                                      !.idx = len(entries), !.curr = root,
                                      !.prev = SENTINEL]
    /\ UNCHANGED <<root, values, kind, iter>>

\* one iteration of the descent
DescentStep ==
    /\ last.pc = "descent"
    /\ descendCond(entries, last.curr, last.key, last.rank)
    /\ last' = [last EXCEPT !.prev = last.curr,
                            !.curr = IF lessThan(last.key, entries[last.curr].key)
                                     THEN entries[last.curr].left
                                     ELSE entries[last.curr].right]
    /\ UNCHANGED <<entries, root, values, kind, iter>>

\* a bug: the new node's parent link is set to the node it is spliced above,
\* when there is one
Splice_ParentBelow ==
    /\ last.pc = "descent"
    /\ ~descendCond(entries, last.curr, last.key, last.rank)
    /\ LET key  == last.key
           idx  == last.idx
           curr == last.curr
           prev_ == last.prev
           e2   == IF curr = root THEN entries
                   ELSE LET a == IF lessThan(key, entries[prev_].key)
                                 THEN [entries EXCEPT ![prev_].left = idx]
                                 ELSE [entries EXCEPT ![prev_].right = idx]
                        IN  [a EXCEPT ![idx].parent = IF curr # SENTINEL THEN curr ELSE prev_]
       IN  /\ root' = IF curr = root THEN idx ELSE root
           /\ IF curr # SENTINEL
              THEN LET a == IF lessThan(key, e2[curr].key)
                            THEN [e2 EXCEPT ![idx].right = curr]
                            ELSE [e2 EXCEPT ![idx].left = curr]
                   IN  /\ entries' = [a EXCEPT ![curr].parent = idx]
                       /\ last' = [last EXCEPT !.pc = "unzip", !.prev = idx]
              ELSE /\ entries' = e2
                   /\ last' = [last EXCEPT !.pc = "fixupCount", !.curr = idx,
                                           !.limit = SENTINEL, !.back = "return"]
    /\ UNCHANGED <<values, kind, iter>>

\* the descent has stopped: the new node is spliced in above curr
Splice ==
    /\ last.pc = "descent"
    /\ ~descendCond(entries, last.curr, last.key, last.rank)
    /\ LET key  == last.key
           idx  == last.idx
           curr == last.curr
           prev_ == last.prev
           e2   == IF curr = root THEN entries
                   ELSE LET a == IF lessThan(key, entries[prev_].key)
                                 THEN [entries EXCEPT ![prev_].left = idx]
                                 ELSE [entries EXCEPT ![prev_].right = idx]
                        IN  [a EXCEPT ![idx].parent = prev_]
       IN  /\ root' = IF curr = root THEN idx ELSE root
           /\ IF curr # SENTINEL
              THEN LET a == IF lessThan(key, e2[curr].key)
                            THEN [e2 EXCEPT ![idx].right = curr]
                            ELSE [e2 EXCEPT ![idx].left = curr]
                   IN  /\ entries' = [a EXCEPT ![curr].parent = idx]
                       /\ last' = [last EXCEPT !.pc = "unzip", !.prev = idx]
              ELSE /\ entries' = e2
                   /\ last' = [last EXCEPT !.pc = "fixupCount", !.curr = idx,
                                           !.limit = SENTINEL, !.back = "return"]
    /\ UNCHANGED <<values, kind, iter>>

\* the head of the unzip loop: for curr != SENTINEL { fix := prev; ...
UnzipHead ==
    /\ last.pc = "unzip"
    /\ last' = IF last.curr = SENTINEL
               THEN [last EXCEPT !.pc = "fixupCount", !.curr = last.idx,
                                 !.limit = SENTINEL, !.back = "return"]
               ELSE [last EXCEPT !.fix = last.prev,
                                 !.pc = IF lessThan(entries[last.curr].key, last.key)
                                        THEN "walkRight" ELSE "walkLeft"]
    /\ UNCHANGED <<entries, root, values, kind, iter>>

\* one iteration of the inner loop to the right
WalkRightStep ==
    /\ last.pc = "walkRight"
    /\ last.curr # SENTINEL /\ ~lessThan(last.key, entries[last.curr].key)
    /\ last' = [last EXCEPT !.prev = last.curr, !.curr = entries[last.curr].right]
    /\ UNCHANGED <<entries, root, values, kind, iter>>

\* one iteration of the inner loop to the left
WalkLeftStep ==
    /\ last.pc = "walkLeft"
    /\ last.curr # SENTINEL /\ ~lessThan(entries[last.curr].key, last.key)
    /\ last' = [last EXCEPT !.prev = last.curr, !.curr = entries[last.curr].left]
    /\ UNCHANGED <<entries, root, values, kind, iter>>

\* the inner loop has stopped: the rest goes under fix, then fixupCount(fix, idx)
Attach ==
    /\ \/ /\ last.pc = "walkRight"
          /\ ~(last.curr # SENTINEL /\ ~lessThan(last.key, entries[last.curr].key))
       \/ /\ last.pc = "walkLeft"
          /\ ~(last.curr # SENTINEL /\ ~lessThan(entries[last.curr].key, last.key))
    /\ LET e1 == IF attachLeft(entries, last.fix, last.prev, last.key, last.idx)
                 THEN [entries EXCEPT ![last.fix].left = last.curr]
                 ELSE [entries EXCEPT ![last.fix].right = last.curr]
       IN  entries' = IF last.curr # SENTINEL
                      THEN [e1 EXCEPT ![last.curr].parent = last.fix] ELSE e1
    /\ last' = [last EXCEPT !.pc = "fixupCount", !.other = last.curr,
                            !.curr = last.fix, !.limit = last.idx, !.back = "unzip"]
    /\ UNCHANGED <<root, values, kind, iter>>

\* one iteration of fixupCount
FixupStep ==
    /\ last.pc = "fixupCount"
    /\ last.curr # last.limit
    /\ LET left  == entries[last.curr].left
           right == entries[last.curr].right
           c1 == IF left # SENTINEL THEN 1 + entries[left].count ELSE 1
           c2 == IF right # SENTINEL THEN c1 + entries[right].count ELSE c1
       IN  entries' = [entries EXCEPT ![last.curr].count = c2]
    /\ last' = [last EXCEPT !.curr = entries[last.curr].parent]
    /\ UNCHANGED <<root, values, kind, iter>>

\* fixupCount returns: to the unzip loop, to compact, or out of insert
FixupDone ==
    /\ last.pc = "fixupCount"
    /\ last.curr = last.limit
    /\ last' = CASE last.back = "unzip" ->
                      [last EXCEPT !.pc = "unzip", !.curr = last.other, !.other = 0,
                                   !.limit = SENTINEL, !.back = "none"]
                 [] last.back = "compact" ->
                      [last EXCEPT !.pc = "compact", !.curr = SENTINEL,
                                   !.limit = SENTINEL, !.back = "none"]
                 [] last.back = "return" -> Return(last.op, TRUE)
    /\ UNCHANGED <<entries, root, values, kind, iter>>

\* deleteIndex up to its merge loop: a child takes the victim's place
DeleteHead ==
    /\ last.pc = "deleteIndex"
    /\ LET keyIdx == last.keyIdx
           key    == entries[keyIdx].key
           prev_  == entries[keyIdx].parent
           left   == entries[keyIdx].left
           right  == entries[keyIdx].right
           curr   == deleteChoice(entries, left, right)
           e1     == IF root = keyIdx THEN entries
                     ELSE IF lessThan(key, entries[prev_].key)
                          THEN [entries EXCEPT ![prev_].left = curr]
                          ELSE [entries EXCEPT ![prev_].right = curr]
       IN  /\ root' = IF root = keyIdx THEN curr ELSE root
           /\ entries' = IF curr # SENTINEL THEN [e1 EXCEPT ![curr].parent = prev_] ELSE e1
           /\ last' = [last EXCEPT !.pc = "zip", !.prev = prev_,
                                   !.left = left, !.right = right]
    /\ UNCHANGED <<values, kind, iter>>

\* the head of the merge loop: for left != SENTINEL && right != SENTINEL { ...
ZipHead ==
    /\ last.pc = "zip"
    /\ last' = IF last.left # SENTINEL /\ last.right # SENTINEL
               THEN IF entries[last.left].rank >= entries[last.right].rank
                    THEN [last EXCEPT !.pc = "zipLeft",
                                      !.other = entries[last.right].rank]
                    ELSE [last EXCEPT !.pc = "zipRight",
                                      !.other = entries[last.left].rank]
               ELSE [last EXCEPT !.pc = "fixupCount", !.curr = last.prev,
                                 !.limit = SENTINEL, !.back = "compact",
                                 !.prev = SENTINEL, !.left = SENTINEL,
                                 !.right = SENTINEL]
    /\ UNCHANGED <<entries, root, values, kind, iter>>

\* the inner loop down the left subtree's right spine goes on
zipLeftCond(e, left, rightRank) == ~(left = SENTINEL \/ e[left].rank < rightRank)

\* the inner loop down the right subtree's left spine goes on
zipRightCond(e, right, leftRank) == ~(right = SENTINEL \/ leftRank >= e[right].rank)

\* one iteration of the inner loop down the left subtree's right spine
ZipLeftStep ==
    /\ last.pc = "zipLeft"
    /\ zipLeftCond(entries, last.left, last.other)
    /\ last' = [last EXCEPT !.prev = last.left, !.left = entries[last.left].right]
    /\ UNCHANGED <<entries, root, values, kind, iter>>

\* the inner loop has stopped: the right subtree goes under prev
ZipLeftDone ==
    /\ last.pc = "zipLeft"
    /\ ~zipLeftCond(entries, last.left, last.other)
    /\ entries' = [entries EXCEPT ![last.prev].right = last.right,
                                  ![last.right].parent = last.prev]
    /\ last' = [last EXCEPT !.pc = "zip", !.other = 0]
    /\ UNCHANGED <<root, values, kind, iter>>

\* one iteration of the inner loop down the right subtree's left spine
ZipRightStep ==
    /\ last.pc = "zipRight"
    /\ zipRightCond(entries, last.right, last.other)
    /\ last' = [last EXCEPT !.prev = last.right, !.right = entries[last.right].left]
    /\ UNCHANGED <<entries, root, values, kind, iter>>

\* the inner loop has stopped: the left subtree goes under prev
ZipRightDone ==
    /\ last.pc = "zipRight"
    /\ ~zipRightCond(entries, last.right, last.other)
    /\ entries' = [entries EXCEPT ![last.prev].left = last.left,
                                  ![last.left].parent = last.prev]
    /\ last' = [last EXCEPT !.pc = "zip", !.other = 0]
    /\ UNCHANGED <<root, values, kind, iter>>

\* z.compact(keyIdx), and deleteInternal returns true
Compact ==
    /\ last.pc = "compact"
    /\ LET z2 == compact(Z, last.keyIdx)
       IN  entries' = z2.entries /\ root' = z2.root
    /\ last' = Return(last.op, TRUE)
    /\ UNCHANGED <<values, kind, iter>>

\* ZipTree.Minimum
TermMinimum ==
    /\ last.pc = "idle"
    /\ IF root = SENTINEL
       THEN /\ iter' = Cursor(root)
            /\ last' = Return("Minimum", FALSE)
       ELSE /\ iter' = NoIterator
            /\ last' = [Enter("Minimum", 0, "leftMost", Z) EXCEPT !.curr = root]
    /\ UNCHANGED <<entries, root, values, kind>>

\* ZipTree.Maximum
TermMaximum ==
    /\ last.pc = "idle"
    /\ IF root = SENTINEL
       THEN /\ iter' = Cursor(root)
            /\ last' = Return("Maximum", FALSE)
       ELSE /\ iter' = NoIterator
            /\ last' = [Enter("Maximum", 0, "rightMost", Z) EXCEPT !.curr = root]
    /\ UNCHANGED <<entries, root, values, kind>>

\* one iteration of the loop of leftMost, or of the same loop in Next
LeftMostStep ==
    /\ last.pc = "leftMost"
    /\ entries[last.curr].left # SENTINEL
    /\ last' = [last EXCEPT !.curr = entries[last.curr].left]
    /\ UNCHANGED <<entries, root, values, kind, iter>>

\* one iteration of the loop of rightMost, or of the same loop in Prev
RightMostStep ==
    /\ last.pc = "rightMost"
    /\ entries[last.curr].right # SENTINEL
    /\ last' = [last EXCEPT !.curr = entries[last.curr].right]
    /\ UNCHANGED <<entries, root, values, kind, iter>>

\* the loop down a spine has stopped: the cursor is on its last node
SpineDone ==
    /\ \/ last.pc = "leftMost" /\ entries[last.curr].left = SENTINEL
       \/ last.pc = "rightMost" /\ entries[last.curr].right = SENTINEL
    /\ iter' = Cursor(last.curr)
    /\ last' = Return(last.op, FALSE)
    /\ UNCHANGED <<entries, root, values, kind>>

\* ZipIterator.Next up to its loop
TermIterNext ==
    /\ last.pc = "idle"
    /\ iter.origin # "none"
    /\ IF IsEmpty(iter)
       THEN last' = Return("Next", FALSE)
       ELSE IF entries[iter.current].right # SENTINEL
            THEN last' = [Enter("Next", 0, "leftMost", Z)
                             EXCEPT !.curr = entries[iter.current].right]
            ELSE last' = [Enter("Next", 0, "climbRight", Z)
                             EXCEPT !.curr = iter.current,
                                    !.prev = entries[iter.current].parent]
    /\ UNCHANGED <<entries, root, values, kind, iter>>

\* ZipIterator.Prev up to its loop
TermIterPrev ==
    /\ last.pc = "idle"
    /\ iter.origin # "none"
    /\ IF IsEmpty(iter)
       THEN last' = Return("Prev", FALSE)
       ELSE IF entries[iter.current].left # SENTINEL
            THEN last' = [Enter("Prev", 0, "rightMost", Z)
                             EXCEPT !.curr = entries[iter.current].left]
            ELSE last' = [Enter("Prev", 0, "climbLeft", Z)
                             EXCEPT !.curr = iter.current,
                                    !.prev = entries[iter.current].parent]
    /\ UNCHANGED <<entries, root, values, kind, iter>>

\* the climb of Next (side "right") or Prev (side "left") goes on:
\* parent != SENTINEL && entries[parent].right == root; prev holds parent
climbCond(e, side, r, parent) ==
    parent # SENTINEL /\ (IF side = "right" THEN e[parent].right ELSE e[parent].left) = r

\* one iteration of the climb
ClimbStep ==
    /\ last.pc \in {"climbRight", "climbLeft"}
    /\ climbCond(entries, IF last.pc = "climbRight" THEN "right" ELSE "left",
                 last.curr, last.prev)
    /\ last' = [last EXCEPT !.curr = last.prev, !.prev = entries[last.prev].parent]
    /\ UNCHANGED <<entries, root, values, kind, iter>>

\* the climb has stopped: it.current = parent
ClimbDone ==
    /\ last.pc \in {"climbRight", "climbLeft"}
    /\ ~climbCond(entries, IF last.pc = "climbRight" THEN "right" ELSE "left",
                  last.curr, last.prev)
    /\ iter' = Cursor(last.prev)
    /\ last' = Return(last.op, FALSE)
    /\ UNCHANGED <<entries, root, values, kind>>

\* ZipTree.DeleteIter(iter) with the cursor the last query handed out
TermDeleteIter ==
    /\ last.pc = "idle"
    /\ iter.origin # "none"
    /\ last' = IF iter.current = SENTINEL
               THEN Return("DeleteIter", FALSE)
               ELSE [Enter("DeleteIter", 0, "deleteIndex", Z) EXCEPT !.keyIdx = iter.current]
    /\ iter' = NoIterator
    /\ UNCHANGED <<entries, root, values, kind>>

\* the steps a running call takes once the coin has come up tails
TermStep ==
    \/ FindStep \/ FindDone
    \/ DescentStep \/ Splice \/ UnzipHead \/ WalkRightStep \/ WalkLeftStep \/ Attach
    \/ FixupStep \/ FixupDone
    \/ DeleteHead \/ ZipHead \/ ZipLeftStep \/ ZipLeftDone \/ ZipRightStep \/ ZipRightDone
    \/ Compact
    \/ LeftMostStep \/ RightMostStep \/ SpineDone \/ ClimbStep \/ ClimbDone

\* the calls the client makes
TermCall ==
    \/ \E k \in Keys : TermInsert(k)
    \/ \E k \in Keys : TermDelete(k)
    \/ \E k \in Keys : TermFind(k)
    \/ TermMinimum \/ TermMaximum \/ TermIterNext \/ TermIterPrev \/ TermDeleteIter

TermNext == TermCall \/ Heads \/ Tails \/ TermStep

\* A call, once made, runs on without suspension; the random source returns
\* tails at some point of every run of coin flips.
TermSpec ==
    /\ TermInit /\ [][TermNext]_vars
    /\ WF_vars(TermStep)
    /\ WF_vars(Tails)

(***************************************************************************)
(* Properties.  The vocabulary below is stated on the arena alone, without *)
(* the tree's own search and count code.                                   *)
(***************************************************************************)
\* the keys stored in the arena
KeysOf(e) == {e[i].key : i \in DOMAIN e}

RECURSIVE Subtree(_, _, _)
\* the slots reached from h through child links, in at most fuel steps
Subtree(e, h, fuel) ==
    IF h \notin DOMAIN e \/ fuel = 0 THEN {}
    ELSE {h} \cup Subtree(e, e[h].left, fuel - 1) \cup Subtree(e, e[h].right, fuel - 1)

\* the slots below the left, the right child of slot i
LeftOf(e, i) == Subtree(e, e[i].left, len(e))

RightOf(e, i) == Subtree(e, e[i].right, len(e))

\* the children of slot i
ChildrenOf(e, i) == {e[i].left, e[i].right} \ {SENTINEL}

\* the number of keys of S below k: the 0-based ascending position of k
Position(S, k) == Cardinality({j \in S : j < k})

\* C1: BST order. In every reachable state, for every node of the arena, every key
\* in its left subtree is less than its key and every key in its right subtree is
\* greater, under the ordering predicate.
C1_BSTOrder ==
    \A i \in DOMAIN entries :
        /\ \A j \in LeftOf(entries, i) : lessThan(entries[j].key, entries[i].key)
        /\ \A j \in RightOf(entries, i) : lessThan(entries[i].key, entries[j].key)

\* C1 witness: an insert has unzipped a subtree around the new key: the new node
\* has keys on both sides, three in all.
C1_Witness ==
    /\ last.op = "Insert" /\ last.ret
    /\ \E i \in DOMAIN entries :
          /\ entries[i].key = last.key
          /\ LeftOf(entries, i) # {} /\ RightOf(entries, i) # {}
          /\ Cardinality(LeftOf(entries, i) \cup RightOf(entries, i)) = 3

\* C2: subtree counts. In every reachable state (after every completed call) every
\* node has count = 1 + count(left) + count(right), a none child counting 0.
C2_Count ==
    \A i \in DOMAIN entries :
        LET cnt(h) == IF h = SENTINEL THEN 0 ELSE entries[h].count
        IN  entries[i].count = 1 + cnt(entries[i].left) + cnt(entries[i].right)

\* C2 witness: a delete through a cursor has left a node with a child on each side.
C2_Witness ==
    /\ last.op = "DeleteIter" /\ last.ret
    /\ \E i \in DOMAIN entries :
          /\ entries[i].left # SENTINEL /\ entries[i].right # SENTINEL
          /\ entries[i].count = 3

\* C3: heap order with tie-break. In every reachable state every node's rank is at
\* least the rank of each child, and a child of equal rank holds the greater key
\* (so a left child has a strictly smaller rank).
C3_HeapOrder ==
    \A i \in DOMAIN entries : \A c \in ChildrenOf(entries, i) :
        /\ entries[i].rank >= entries[c].rank
        /\ entries[i].rank = entries[c].rank => lessThan(entries[i].key, entries[c].key)

\* C3 witness: a delete has zipped two subtrees and left a parent and its right
\* child with equal ranks.
C3_Witness ==
    /\ last.op = "Delete" /\ last.ret
    /\ \E i \in DOMAIN entries :
          /\ entries[i].right # SENTINEL
          /\ entries[i].left # SENTINEL
          /\ entries[entries[i].right].rank = entries[i].rank

\* the tree after the step, in action formulas
Zp == [entries |-> entries', root |-> root']

\* the key with exactly j smaller keys in S
Kth(S, j) == CHOOSE k \in S : Position(S, k) = j

\* C4: forward iteration is complete and sorted. A cursor from NewIterator that has
\* been moved by Next j times stands on the key with exactly j smaller live keys
\* while j < Size, and is empty once j = Size (at once on an empty tree): the walk
\* visits every live key once, in strictly ascending order, and ends after exactly
\* Size steps.
C4_ForwardIteration ==
    iter.origin = "NewIterator" =>
        /\ iter.steps <= Size(Z)
        /\ iter.steps < Size(Z) =>
              /\ ~IsEmpty(iter)
              /\ Key(entries, iter) = Kth(KeysOf(entries), iter.steps)
        /\ iter.steps = Size(Z) => IsEmpty(iter)

\* C4 witness: a walk over a tree of four keys, built with a delete among the
\* inserts, has made all four steps and reports empty.
C4_Witness ==
    /\ iter.origin = "NewIterator" /\ last.op = "Next"
    /\ iter.steps = 4 /\ Size(Z) = 4 /\ IsEmpty(iter)
    /\ entries[3].key < entries[0].key

\* C5: Size/Count agreement. In every reachable state Size() is the arena length,
\* the number of distinct keys in the tree, and Count().
C5_SizeCount ==
    /\ Size(Z) = len(entries)
    /\ Size(Z) = Cardinality(KeysOf(entries))
    /\ Size(Z) = Count(Z)

\* C5 witness: a delete has left a tree of three keys whose root has a child that
\* has a child.
C5_Witness ==
    /\ last.op = "Delete" /\ last.ret
    /\ Size(Z) = 3
    /\ \E c \in ChildrenOf(entries, root) : ChildrenOf(entries, c) # {}

\* C6: duplicate insert. Insert (tree) or Put (map) of a present key returns false,
\* leaves Size and Count unchanged, changes nothing in the arena nor the root, and
\* (map) overwrites only that key's value; of an absent key it returns true and
\* Size grows by exactly one; no two nodes hold equal keys afterwards.
C6_DuplicateInsert ==
    [][last'.op \in {"Insert", "Put"} =>
         /\ IF last'.key \in KeysOf(entries)
            THEN /\ last'.ret = FALSE
                 /\ Size(Zp) = Size(Z) /\ Count(Zp) = Count(Z)
                 /\ entries' = entries /\ root' = root
                 /\ DOMAIN values' = DOMAIN values
                 /\ \A i \in DOMAIN values :
                       values'[i] = IF entries[i].key = last'.key THEN last'.val
                                    ELSE values[i]
            ELSE /\ last'.ret = TRUE
                 /\ Size(Zp) = Size(Z) + 1
         /\ \A i, j \in DOMAIN entries' : entries'[i].key = entries'[j].key => i = j
    ]_vars

\* C6 witness: a Put of a present key has returned false on a map of three entries
\* and stored a value that differs from the value of another entry.
C6_Witness ==
    /\ last.op = "Put" /\ last.ret = FALSE
    /\ len(values) = 3
    /\ \E i \in DOMAIN values : entries[i].key # last.key /\ values[i] # last.val

\* C7: delete of a present key. Delete of a present key k returns true, Size drops
\* by exactly one, Find(k) is then empty, and the key set is the old one minus k,
\* every one of its keys still found.
C7_DeletePresent ==
    [][(last'.op = "Delete" /\ last'.key \in KeysOf(entries)) =>
         /\ last'.ret = TRUE
         /\ Size(Zp) = Size(Z) - 1
         /\ find(Zp, last'.key) = SENTINEL
         /\ KeysOf(entries') = KeysOf(entries) \ {last'.key}
         /\ \A k \in KeysOf(entries) \ {last'.key} :
               /\ find(Zp, k) # SENTINEL
               /\ entries'[find(Zp, k)].key = k
    ]_vars

\* C7 witness: a Delete has returned true and left three keys, its key between two
\* of them.
C7_Witness ==
    /\ last.op = "Delete" /\ last.ret = TRUE
    /\ Size(Z) = 3
    /\ \E a, b \in KeysOf(entries) : a < last.key /\ last.key < b

\* C8: delete of an absent key. Delete of an absent key (any key on an empty tree
\* included) returns false and leaves the arena, the root handle, Size, Count and
\* (map) the value array unchanged.
C8_DeleteAbsent ==
    [][(last'.op = "Delete" /\ last'.key \notin KeysOf(entries)) =>
         /\ last'.ret = FALSE
         /\ entries' = entries /\ root' = root /\ values' = values
         /\ Size(Zp) = Size(Z) /\ Count(Zp) = Count(Z)
    ]_vars

\* C8 witness: a Delete has returned false on a tree that holds keys on both sides
\* of its key.
C8_Witness ==
    /\ last.op = "Delete" /\ last.ret = FALSE
    /\ \E a, b \in KeysOf(entries) : a < last.key /\ last.key < b

\* C9: select/rank round trip. In every reachable state, for every present key k,
\* AtIndex(IndexOf(k)).Key() = k.
C9_RoundTrip ==
    \A k \in KeysOf(entries) :
        Key(entries, ZipIterator(atIndex(Z, indexOf(Z, k)), "AtIndex")) = k

\* C9 witness: a delete has left three keys and the greatest of them is not in the
\* root slot, so its index is found by adding up counts on the way down.
C9_Witness ==
    /\ last.op = "Delete" /\ last.ret
    /\ Size(Z) = 3
    /\ \E i \in DOMAIN entries :
          /\ i # root /\ Position(KeysOf(entries), entries[i].key) = 2
          /\ indexOf(Z, entries[i].key) = 2

\* C10: IndexOf(k) is the number of live keys below k when k is present and the
\* all-ones NOT_FOUND value when k is absent, in every reachable state, the empty
\* tree included.
C10_IndexOf ==
    \A k \in 0..(MaxKey + 1) :
        indexOf(Z, k) = IF k \in KeysOf(entries) THEN Position(KeysOf(entries), k)
                        ELSE NOT_FOUND

\* C10 witness: a tree of three keys with an absent key between two present ones.
C10_Witness ==
    /\ Size(Z) = 3
    /\ \E k \in Keys \ KeysOf(entries) :
          /\ indexOf(Z, k) = NOT_FOUND
          /\ \E a, b \in KeysOf(entries) : a < k /\ k < b /\ indexOf(Z, b) = 2

\* the greatest, the least key of a non-empty set under the ordering predicate
SetMax(S) == CHOOSE k \in S : \A j \in S : ~lessThan(k, j)

SetMin(S) == CHOOSE k \in S : \A j \in S : ~lessThan(j, k)

\* the handle h is a cursor on the key SetOp would pick among the candidates C:
\* empty when there is no candidate, else on the least (greatest) of them
OnLeast(e, h, C) == IF C = {} THEN h = SENTINEL ELSE h \in DOMAIN e /\ e[h].key = SetMin(C)

OnGreatest(e, h, C) == IF C = {} THEN h = SENTINEL ELSE h \in DOMAIN e /\ e[h].key = SetMax(C)

\* the queries the properties range over: every key, and one below and one above
Queries == 0..(MaxKey + 1)

\* C11: AtIndex(i) is a cursor on the i-th smallest live key (0-based) for every
\* i < Size and an empty cursor for every i >= Size, in every reachable state.
C11_AtIndex ==
    \A i \in 0..(MaxSize + 2) :
        LET h == atIndex(Z, i)
        IN  IF i < Size(Z)
            THEN h \in DOMAIN entries /\ entries[h].key = Kth(KeysOf(entries), i)
            ELSE IsEmpty(ZipIterator(h, "AtIndex"))

\* C11 witness: four keys whose root has keys on both sides; index 0 is the least
\* key, index 3 the greatest, and index 4 is out of range.
C11_Witness ==
    /\ Size(Z) = 4
    /\ LeftOf(entries, root) # {} /\ RightOf(entries, root) # {}
    /\ Key(entries, ZipIterator(atIndex(Z, 0), "AtIndex")) = SetMin(KeysOf(entries))
    /\ Key(entries, ZipIterator(atIndex(Z, 3), "AtIndex")) = SetMax(KeysOf(entries))
    /\ atIndex(Z, 3) # root
    /\ atIndex(Z, 4) = SENTINEL

\* C14: Floor(q) is a cursor on the greatest live key not greater than q, and an
\* empty cursor when there is none (q below the minimum, or the tree empty); for a
\* present key v, Floor(v) is on v.
C14_Floor ==
    \A q \in Queries :
        /\ OnGreatest(entries, floor(Z, q), {k \in KeysOf(entries) : ~lessThan(q, k)})
        /\ q \in KeysOf(entries) => Key(entries, ZipIterator(floor(Z, q), "Floor")) = q

\* C14 witness: three keys; an absent query between two of them has its floor on
\* a node below the root, a query above all keys is floored by the greatest key,
\* and a query below all keys has none.
C14_Witness ==
    /\ Size(Z) = 3
    /\ \E q \in Keys \ KeysOf(entries) :
          /\ floor(Z, q) \notin {SENTINEL, root}
          /\ \E b \in KeysOf(entries) : q < b
    /\ Key(entries, ZipIterator(floor(Z, MaxKey + 1), "Floor")) = SetMax(KeysOf(entries))
    /\ floor(Z, 0) = SENTINEL

\* C15: Ceiling(q) and LowerBound(q) return the same cursor: on the least live key
\* not less than q, or an empty cursor when there is none (q above the maximum, or
\* the tree empty); for a present key v both are on v.
C15_CeilingLowerBound ==
    \A q \in Queries :
        LET C == {k \in KeysOf(entries) : ~lessThan(k, q)}
        IN  /\ OnLeast(entries, ceiling(Z, q), C)
            /\ OnLeast(entries, lowerBound(Z, q), C)
            /\ ceiling(Z, q) = lowerBound(Z, q)
            /\ q \in KeysOf(entries) =>
                  Key(entries, ZipIterator(ceiling(Z, q), "Ceiling")) = q

\* C15 witness: three keys; an absent query between two of them has its ceiling on
\* a node below the root after passing another candidate, a query below all keys is
\* answered by the least key and a query above all keys has none.
C15_Witness ==
    /\ Size(Z) = 3
    /\ \E q \in Keys \ KeysOf(entries) :
          /\ ceiling(Z, q) \notin {SENTINEL, root}
          /\ ~lessThan(entries[root].key, q)
          /\ \E a \in KeysOf(entries) : a < q
    /\ Key(entries, ZipIterator(ceiling(Z, 0), "Ceiling")) = SetMin(KeysOf(entries))
    /\ lowerBound(Z, MaxKey + 1) = SENTINEL

\* C16: UpperBound(q) is a cursor on the least live key strictly greater than q,
\* and an empty cursor when there is none; UpperBound(maximum key) is empty, and
\* for a present key v that is not the maximum UpperBound(v) is on v's in-order
\* successor, the node Next reaches from v.
C16_UpperBound ==
    \A q \in Queries :
        /\ OnLeast(entries, upperBound(Z, q), {k \in KeysOf(entries) : lessThan(q, k)})
        /\ q \in KeysOf(entries) => upperBound(Z, q) = next(entries, find(Z, q))
        /\ (KeysOf(entries) # {} /\ q = SetMax(KeysOf(entries))) =>
              upperBound(Z, q) = SENTINEL

\* C16 witness: three keys; the upper bound of a present key is its successor,
\* a node that is neither the root nor a child of the key's node, and the upper
\* bound of the greatest key is empty.
C16_Witness ==
    /\ Size(Z) = 3
    /\ \E v \in KeysOf(entries) :
          LET h == upperBound(Z, v)
          IN  /\ h \notin {SENTINEL, root}
              /\ h \notin ChildrenOf(entries, find(Z, v))
              /\ entries[h].key > v
    /\ upperBound(Z, SetMax(KeysOf(entries))) = SENTINEL

\* Minimum and Maximum of the tree z are on its least and greatest key, and empty
\* when z holds no key
MinMaxRight(z) ==
    /\ OnLeast(z.entries, minimum(z), KeysOf(z.entries))
    /\ OnGreatest(z.entries, maximum(z), KeysOf(z.entries))
    /\ KeysOf(z.entries) = {} =>
          IsEmpty(ZipIterator(minimum(z), "Minimum")) /\ IsEmpty(ZipIterator(maximum(z), "Maximum"))

\* C17: Minimum() and Maximum() are cursors on the smallest and the largest live
\* key in every non-empty reachable state and empty cursors on an empty tree; after
\* the current maximum is deleted, Maximum() is the former second-largest key.
C17_MinMax ==
    [][/\ MinMaxRight(Z)
       /\ MinMaxRight(Zp)
       /\ (/\ last'.op \in {"Delete", "DeleteIter"} /\ last'.ret
           /\ Cardinality(KeysOf(entries)) >= 2
           /\ last'.key = SetMax(KeysOf(entries))) =>
              Key(entries', ZipIterator(maximum(Zp), "Maximum"))
                 = SetMax(KeysOf(entries) \ {last'.key})
    ]_vars

\* C17 witness: the greatest of four keys has been deleted; the greatest of the
\* three keys left is not in the root slot and the least is below the root too.
C17_Witness ==
    /\ last.op = "Delete" /\ last.ret /\ Size(Z) = 3
    /\ \A k \in KeysOf(entries) : k < last.key
    /\ maximum(Z) # root /\ minimum(Z) # root
    /\ entries[maximum(Z)].key = SetMax(KeysOf(entries))

\* Find(k).Value() on the map made of the tree z and the value array vs
FindValue(z, vs, k) == Value(vs, ZipIterator(find(z, k), "Find"))

\* C12: map value alignment. After every Put, Delete and DeleteIter (fresh cursor)
\* on a Map, len(values) is the arena length, and for every slot i values[i] is
\* the value most recently Put for the key in entries[i]: the value of this call
\* when it is a Put of that key, else the value the key had before the call,
\* whatever slot it was in; Find(k).Value() is that value.
C12_ValueAlignment ==
    [][kind = "map" =>
         /\ len(values) = len(entries)
         /\ len(values') = len(entries')
         /\ \A i \in DOMAIN entries' :
               LET k == entries'[i].key
                   v == IF last'.op = "Put" /\ last'.key = k THEN last'.val
                        ELSE values[CHOOSE j \in DOMAIN entries : entries[j].key = k]
               IN  /\ values'[i] = v
                   /\ FindValue(Zp, values', k) = v
    ]_vars

\* C12 witness: a delete has left a map of two entries with different values, the
\* greater key in the first slot.
C12_Witness ==
    /\ kind = "map" /\ last.op \in {"Delete", "DeleteIter"} /\ last.ret
    /\ len(values) = 2 /\ values[0] # values[1]
    /\ entries[0].key > entries[1].key
    /\ last.key < entries[1].key

\* C13: inserting any set of distinct keys in any order and then deleting every
\* one of them in any order, with any ranks, leaves the tree empty: whenever the
\* client has deleted every key it inserted, root is the none handle, Size is 0,
\* Count is 0, and Minimum and Maximum are empty cursors.
C13_InsertDeleteAll ==
    last.live = {} =>
        /\ root = SENTINEL
        /\ Size(Z) = 0
        /\ Count(Z) = 0
        /\ IsEmpty(ZipIterator(minimum(Z), "Minimum"))
        /\ IsEmpty(ZipIterator(maximum(Z), "Maximum"))

\* C13 witness: the client holds no key after three deletes in a row, the last of
\* a key that is neither the least nor the greatest of the three.
C13_Witness ==
    /\ last.op = "Delete" /\ last.ret
    /\ last.live = {} /\ last.drained = 3
    /\ last.key \in 2..(MaxKey - 1)
    /\ Size(Z) = 0

\* the key with exactly j greater keys in S
KthLast(S, j) == CHOOSE k \in S : Cardinality({i \in S : lessThan(k, i)}) = j

\* C18: reverse iteration is complete and sorted. A cursor from NewPrevIterator
\* that has been moved by Prev j times stands on the key with exactly j greater
\* live keys while j < Size, and is empty once j = Size (at once on an empty
\* tree): the walk starts at the maximum, visits every live key once in strictly
\* descending order, and becomes empty after exactly Size steps.
C18_ReverseIteration ==
    iter.origin = "NewPrevIterator" =>
        /\ iter.steps <= Size(Z)
        /\ iter.steps < Size(Z) =>
              /\ ~IsEmpty(iter)
              /\ Key(entries, iter) = KthLast(KeysOf(entries), iter.steps)
        /\ iter.steps = Size(Z) => IsEmpty(iter)

\* C18 witness: a backward walk over four keys, in an arena a delete has
\* reordered, has made all four steps and reports empty.
C18_Witness ==
    /\ iter.origin = "NewPrevIterator" /\ last.op = "Prev"
    /\ iter.steps = 4 /\ Size(Z) = 4 /\ IsEmpty(iter)
    /\ entries[3].key < entries[0].key

\* the keys the query that produced the client's cursor should have put it on:
\* one key, or none when the query has no answer
AskedFor(S) ==
    IF last.op = "Minimum" THEN (IF S = {} THEN {} ELSE {SetMin(S)})
    ELSE IF last.op = "Maximum" THEN (IF S = {} THEN {} ELSE {SetMax(S)})
    ELSE IF last.op = "Find" THEN S \cap {last.key}
    ELSE {k \in S : Position(S, k) = last.key}

\* C19: DeleteIter with a cursor from Minimum/Maximum/Find/AtIndex, no mutation in
\* between, removes exactly the key under the cursor (the key the query asked
\* for), returns true and decreases Size by one; with an empty cursor it returns
\* false and changes nothing.
C19_DeleteIterFresh ==
    [][(last'.op = "DeleteIter"
          /\ iter.origin \in {"Minimum", "Maximum", "Find", "AtIndex"}) =>
         IF IsEmpty(iter)
         THEN /\ AskedFor(KeysOf(entries)) = {}
              /\ last'.ret = FALSE
              /\ entries' = entries /\ root' = root /\ values' = values
         ELSE /\ AskedFor(KeysOf(entries)) = {Key(entries, iter)}
              /\ last'.ret = TRUE
              /\ Size(Zp) = Size(Z) - 1
              /\ Count(Zp) = Count(Z) - 1
              /\ KeysOf(entries') = KeysOf(entries) \ {Key(entries, iter)}
              /\ len(values') = len(entries') \/ kind = "tree"
    ]_vars

\* C19 witness: of four keys the least and the greatest are gone, the greatest
\* through a cursor, and exactly the two middle keys are left.
C19_Witness ==
    /\ last.op = "DeleteIter" /\ last.ret
    /\ last.key = MaxKey
    /\ KeysOf(entries) = {2, 3}
    /\ Size(Z) = 2

\* C20: DeleteIter returns true if the entry was deleted and false if the entry is
\* not found: for any cursor, whatever Insert/Delete calls happened since it was
\* obtained, DeleteIter returns true only when it removed the key the cursor was
\* obtained for, and returns false, removing nothing, when that key is no longer
\* in the tree.
C20_DeleteIterAnyCursor ==
    [][last'.op \in {"DeleteIter", "DeleteIterPanic"} =>
         /\ last'.ret =>
               /\ iter.key \in KeysOf(entries)
               /\ KeysOf(entries') = KeysOf(entries) \ {iter.key}
         /\ iter.key \notin KeysOf(entries) =>
               /\ last'.op = "DeleteIter"
               /\ last'.ret = FALSE
               /\ entries' = entries /\ root' = root
    ]_vars

\* C21: the value-less Insert on a Map always stops with a panic and never
\* modifies the arena, the root or the value array, in any map state.
C21_MapInsertPanics ==
    [][(kind = "map" /\ last'.op \in {"Insert", "InsertPanic"}) =>
         /\ last'.op = "InsertPanic"
         /\ entries' = entries /\ root' = root /\ values' = values
    ]_vars

\* C21 witness: Insert of an absent key has panicked on a map that holds two
\* entries and has room for a third.
C21_Witness ==
    /\ kind = "map" /\ last.op = "InsertPanic"
    /\ last.key \notin KeysOf(entries)
    /\ len(entries) = 2 /\ len(values) = 2

\* a handle is none or a slot of the arena
ValidHandle(e, h) == h = SENTINEL \/ h \in DOMAIN e

\* C22: arena link consistency and density. After every completed call every
\* left/right/parent handle is none or a slot below the arena length; a child c
\* of node i has parent(c) = i, and a parent p of node i has exactly one of
\* left(p), right(p) equal to i; the root handle is none iff the arena is empty,
\* otherwise the root is the one node with parent none and every slot is reached
\* from it.
C22_Links ==
    /\ \A i \in DOMAIN entries :
          /\ ValidHandle(entries, entries[i].left)
          /\ ValidHandle(entries, entries[i].right)
          /\ ValidHandle(entries, entries[i].parent)
          /\ \A c \in ChildrenOf(entries, i) : entries[c].parent = i
          /\ entries[i].parent # SENTINEL =>
                LET p == entries[i].parent
                IN  (entries[p].left = i) # (entries[p].right = i)
    /\ (root = SENTINEL) <=> (len(entries) = 0)
    /\ root # SENTINEL =>
          /\ root \in DOMAIN entries
          /\ {i \in DOMAIN entries : entries[i].parent = SENTINEL} = {root}
          /\ Subtree(entries, root, len(entries)) = DOMAIN entries

\* C22 witness: a delete has left three nodes; the root, not in slot 0, has a
\* child on each side and the greatest key sits in slot 0.
C22_Witness ==
    /\ last.op \in {"Delete", "DeleteIter"} /\ last.ret
    /\ Size(Z) = 3 /\ root # 0
    /\ entries[root].left # SENTINEL /\ entries[root].right # SENTINEL
    /\ entries[0].key = SetMax(KeysOf(entries))

\* the slot that holds key k in the arena e
SlotOf(e, k) == CHOOSE i \in DOMAIN e : e[i].key = k

\* C23: handle stability. An Insert (Put) that creates a node gives it the handle
\* equal to the old arena length and changes the handle of no existing key; a
\* Delete (DeleteIter) of the node in slot d of an arena of length n moves only
\* the key that was in slot n-1 into slot d (nothing moves when d = n-1) and every
\* other surviving key keeps its handle.
C23_HandleStability ==
    [][/\ (last'.op \in {"Insert", "Put"} /\ last'.ret) =>
             /\ len(entries') = len(entries) + 1
             /\ entries'[len(entries)].key = last'.key
             /\ \A i \in DOMAIN entries : entries'[i].key = entries[i].key
       /\ (last'.op \in {"Delete", "DeleteIter"} /\ last'.ret) =>
             LET n == len(entries)
                 d == SlotOf(entries, last'.key)
             IN  /\ len(entries') = n - 1
                 /\ \A i \in DOMAIN entries' :
                       entries'[i].key = IF i = d THEN entries[n - 1].key
                                         ELSE entries[i].key
    ]_vars

\* C23 witness: a delete from four keys has left three, the greatest of them in
\* slot 0 and the least in slot 2; the deleted key was above the key in slot 1.
C23_Witness ==
    /\ last.op \in {"Delete", "DeleteIter"} /\ last.ret
    /\ Size(Z) = 3
    /\ entries[0].key = SetMax(KeysOf(entries))
    /\ entries[2].key = SetMin(KeysOf(entries))
    /\ last.key > entries[1].key

\* the rank stored with key k in the arena e
RankOf(e, k) == e[SlotOf(e, k)].rank

\* C24: rank immutability. The rank stored with a key is fixed when the key is
\* inserted and is the same in every later state until the key is deleted: every
\* call leaves the rank of every key that is in the tree before and after it
\* unchanged, whatever unzip, zip or compaction move it makes.
C24_RankImmutable ==
    [][\A k \in KeysOf(entries) \cap KeysOf(entries') :
          RankOf(entries', k) = RankOf(entries, k)]_vars

\* C24 witness: a delete has left three keys of three different ranks, the key
\* of the highest rank in the last slot and the deleted key below all of them.
C24_Witness ==
    /\ last.op \in {"Delete", "DeleteIter"} /\ last.ret
    /\ Size(Z) = 3
    /\ Cardinality({entries[i].rank : i \in DOMAIN entries}) = 3
    /\ root = 2
    /\ \A k \in KeysOf(entries) : last.key < k

\* the rule as first stated: pass a node of strictly greater rank, or of equal
\* rank and greater key than the new key
PassGreaterKey(e, node, key, rank) ==
    e[node].rank > rank \/ (e[node].rank = rank /\ lessThan(key, e[node].key))

\* the rule with the tie turned round: pass a node of strictly greater rank, or of
\* equal rank and smaller key than the new key
PassSmallerKey(e, node, key, rank) ==
    e[node].rank > rank \/ (e[node].rank = rank /\ lessThan(e[node].key, key))

RECURSIVE StopGreaterKey(_, _, _, _, _)
\* <<stop, last passed>> of the search path of key from curr under PassGreaterKey
StopGreaterKey(e, curr, passed, key, rank) ==
    IF curr # SENTINEL /\ PassGreaterKey(e, curr, key, rank)
    THEN StopGreaterKey(e, IF lessThan(key, e[curr].key) THEN e[curr].left
                           ELSE e[curr].right, curr, key, rank)
    ELSE <<curr, passed>>

RECURSIVE StopSmallerKey(_, _, _, _, _)
\* <<stop, last passed>> of the search path of key from curr under PassSmallerKey
StopSmallerKey(e, curr, passed, key, rank) ==
    IF curr # SENTINEL /\ PassSmallerKey(e, curr, key, rank)
    THEN StopSmallerKey(e, IF lessThan(key, e[curr].key) THEN e[curr].left
                           ELSE e[curr].right, curr, key, rank)
    ELSE <<curr, passed>>

\* what a step that created the node idx shows of its descent, if the descent
\* stopped at stop[1] after passing stop[2] last: the new node hangs under the last
\* node passed (or is the root when none was passed) and the stop node, if any,
\* hangs under the new node
PlacedAt(stop, idx) ==
    /\ entries'[idx].parent = stop[2]
    /\ (stop[2] = SENTINEL) <=> (root' = idx)
    /\ stop[1] # SENTINEL => entries'[stop[1]].parent = idx

\* C25 as stated: inserting a new node, the descent from the root continues past a
\* visited node exactly while that node's rank is strictly greater than the new
\* rank, or equal to it with the visited node's key greater than the new key, and
\* stops at the first node (or none) for which neither holds.
C25_DescentAsStated ==
    [][(last'.op \in {"Insert", "Put"} /\ last'.ret) =>
         LET idx == len(entries)
         IN  PlacedAt(StopGreaterKey(entries, root, SENTINEL, last'.key,
                                     entries'[idx].rank), idx)
    ]_vars

\* C25 amended: the descent continues past a visited node exactly while that
\* node's rank is strictly greater than the new rank, or equal to it with the
\* visited node's key less than the new key, and stops at the first node (or none)
\* for which neither holds.
C25_Descent ==
    [][(last'.op \in {"Insert", "Put"} /\ last'.ret) =>
         LET idx == len(entries)
         IN  PlacedAt(StopSmallerKey(entries, root, SENTINEL, last'.key,
                                     entries'[idx].rank), idx)
    ]_vars

\* C25 witness: an insert has passed a node of its own rank and smaller key, which
\* is now its parent, and stopped at a node that now hangs under the new node.
C25_Witness ==
    /\ last.op = "Insert" /\ last.ret
    /\ LET idx == len(entries) - 1
           p   == entries[idx].parent
       IN  /\ entries[idx].key = last.key
           /\ p # SENTINEL
           /\ entries[p].rank = entries[idx].rank
           /\ lessThan(entries[p].key, last.key)
           /\ ChildrenOf(entries, idx) # {}

\* the greatest j with 2^j <= w, for a uint32 w > 0
FloorLog2W(w) ==
    CHOOSE j \in 0..31 :
        /\ ~lt32(w, Pow2W(j))
        /\ j < 31 => lt32(w, Pow2W(j + 1))

\* C26: rank packing is order-preserving and never overflows the tie-break field.
\* For an arena size n with 1 <= n <= 2^32-2 the bound L = floor(log2(n+1))^3
\* satisfies 1 <= L <= 29791, so the draw is never asked of an empty range and
\* 1 + r2 fits in 16 bits and is never 0; and for r1 <= 65535 comparing two packed
\* ranks (r1<<16)|(1+r2) as 32-bit unsigned integers gives the lexicographic order
\* of (r1, r2), with equality iff both components are equal.
C26_RankPacking ==
    /\ last.op = "bound" =>
          LET lg == FloorLog2W(inc32(last.n))
          IN  /\ last.L = U32(lg * lg * lg)
              /\ last.L[1] = 0 /\ last.L[2] \in 1..29791
              /\ \A r2 \in {0, last.L[2] - 1} :
                    /\ inc32(U32(r2))[1] = 0
                    /\ inc32(U32(r2))[2] \in 1..(Half - 1)
              /\ last.n[1] = 0 /\ last.n[2] < 1024 => last.L[2] = r2Bound(last.n[2])
    /\ last.op = "packed" =>
          LET a == last.a
              b == last.b
          IN  /\ last.less <=> (a[1] < b[1] \/ (a[1] = b[1] /\ a[2] < b[2]))
              /\ last.equal <=> (a = b)
              /\ last.ra = <<a[1], 1 + a[2]>>
              /\ a[1] < Half \div 2 =>
                    last.ra[1] * Half + last.ra[2] = packRank(a[1], a[2])

\* C26 witness: two draws with the greatest r1, whose packed ranks have the top
\* bit set, and the two greatest tie-breaks have been packed and compared.
C26_Witness ==
    /\ last.op = "packed"
    /\ last.a = <<Half - 1, 29789>> /\ last.b = <<Half - 1, 29790>>
    /\ last.ra = <<Half - 1, 29790>> /\ last.rb = <<Half - 1, 29791>>
    /\ last.less /\ ~last.equal

\* the (key, rank) pairs stored in the arena
PairsOf(e) == {<<e[i].key, e[i].rank>> : i \in DOMAIN e}

\* the pair that roots a tree of the pairs S: of maximum rank, and of the smallest
\* key among those
TopOf(S) ==
    CHOOSE p \in S : \A q \in S : q[2] < p[2] \/ (q[2] = p[2] /\ ~lessThan(q[1], p[1]))

RECURSIVE ShapeOf(_, _, _)
\* the tree built from the pairs S alone, as the set of <<key, parent key, side>>
\* with parent key 0 and side "root" for its root, hung on side `side` of `above`
ShapeOf(S, above, side) ==
    IF S = {} THEN {}
    ELSE LET t == TopOf(S)
         IN  {<<t[1], above, side>>}
                \cup ShapeOf({p \in S : lessThan(p[1], t[1])}, t[1], "left")
                \cup ShapeOf({p \in S : lessThan(t[1], p[1])}, t[1], "right")

\* the parent/child relation of the arena, read off its parent and child links
LinksOf(e) ==
    {<<e[i].key,
       IF e[i].parent = SENTINEL THEN 0 ELSE e[e[i].parent].key,
       IF e[i].parent = SENTINEL THEN "root"
       ELSE IF e[e[i].parent].left = i THEN "left"
       ELSE IF e[e[i].parent].right = i THEN "right" ELSE "loose">> : i \in DOMAIN e}

\* C27: history independence of shape. After any sequence of Insert/Delete calls
\* the parent/child relation over keys depends only on the current set of
\* (key, rank) pairs: it is the tree built by recursively taking as (sub)tree root
\* the node of maximum rank, the smallest key among equal ranks.
C27_Shape ==
    /\ LinksOf(entries) = ShapeOf(PairsOf(entries), 0, "root")
    /\ root # SENTINEL => entries[root].key = TopOf(PairsOf(entries))[1]

\* C27 witness: a delete has left three keys, two of them of the same rank and
\* one of these the root, with a key on each side.
C27_Witness ==
    /\ last.op \in {"Delete", "DeleteIter"} /\ last.ret
    /\ Size(Z) = 3
    /\ LeftOf(entries, root) # {} /\ RightOf(entries, root) # {}
    /\ \E i \in DOMAIN entries : i # root /\ entries[i].rank = entries[root].rank

\* the tree after Insert(k) with the packed rank r, then Delete(k)
InsertThenDelete(z, k, r) ==
    LET z1 == insert(z, k, r)
    IN  deleteInternal(z1, find(z1, k))

\* C28: Insert/Delete round trip. From any reachable state, Insert(k) of an absent
\* key k, with any rank, immediately followed by Delete(k) restores the arena
\* exactly: same length, same root handle, and in every slot the same key, rank,
\* left, right, parent and count as before the Insert.
C28_InsertDeleteRoundTrip ==
    \A k \in Keys \ KeysOf(entries) :
        \A d \in RankDraws(len(entries)) :
            LET rt == InsertThenDelete(Z, k, packRank(d[1], d[2]))
            IN  /\ rt[2] = TRUE
                /\ len(rt[1].entries) = len(entries)
                /\ rt[1].root = root
                /\ \A i \in DOMAIN entries : rt[1].entries[i] = entries[i]

\* C28 witness: three keys, and an absent key between two of them that, inserted
\* with some rank, becomes the root with a subtree on each side, the unzip having moved
\* an old node under a new parent; deleting it again gives back the arena.
C28_Witness ==
    /\ Size(Z) = 3
    /\ \E k \in Keys \ KeysOf(entries) :
          \E d \in RankDraws(len(entries)) :
              LET z1 == insert(Z, k, packRank(d[1], d[2]))
              IN  /\ z1.root = 3
                  /\ LeftOf(z1.entries, 3) # {} /\ RightOf(z1.entries, 3) # {}
                  /\ \E i \in DOMAIN entries : z1.entries[i].parent \notin {3, entries[i].parent}
                  /\ InsertThenDelete(Z, k, packRank(d[1], d[2]))[1] = Z

\* C30: random-source consumption. An Insert or Put that creates a node draws at
\* least once: one coin flip for every heads and one for the tails that ends the
\* loop, then exactly one r2 draw when the arena was non-empty and none when it
\* was empty. An Insert or Put of a present key, a Delete and a query draw
\* nothing. The tree after a creating call is the one computed from the tree
\* before, the key and the outcomes drawn; after any other call it is computed
\* from the tree before and the key alone.
C30_RandomConsumption ==
    [][ /\ (last'.op \in {"Insert", "Put"} /\ last'.ret) =>
              /\ last'.coins >= 1
              /\ last'.coins = last'.r1 + 1
              /\ last'.r2s = (IF len(entries) > 0 THEN 1 ELSE 0)
              /\ len(entries) = 0 => last'.r2 = 0
              /\ find(Z, last'.key) = SENTINEL
              /\ [entries |-> entries', root |-> root']
                    = insert(Z, last'.key, BitOr(last'.r1 * Half, 1 + last'.r2))
        /\ ~(last'.op \in {"Insert", "Put"} /\ last'.ret) =>
              /\ last'.coins = 0 /\ last'.r2s = 0
              /\ last'.op \in {"Insert", "Put"} =>
                    /\ find(Z, last'.key) # SENTINEL
                    /\ entries' = entries /\ root' = root
              /\ last'.op = "Delete" =>
                    [entries |-> entries', root |-> root']
                       = deleteInternal(Z, find(Z, last'.key))[1]
              /\ last'.op = "Find" => (entries' = entries /\ root' = root)
      ]_vars

\* C30 witness: a creating call on a non-empty tree that flipped heads once and
\* tails once and drew r2 once.
C30_Witness ==
    /\ last.op \in {"Insert", "Put"} /\ last.ret
    /\ last.coins = 2 /\ last.r2s = 1
    /\ len(entries) >= 2

\* a call is running
Running == last.pc # "idle"

RECURSIVE ClimbsOut(_, _, _)
\* the parent links from h reach the none handle in at most fuel steps
ClimbsOut(e, h, fuel) ==
    \/ h = SENTINEL
    \/ fuel > 0 /\ h \in DOMAIN e /\ ClimbsOut(e, e[h].parent, fuel - 1)

RECURSIVE Paths(_, _, _)
\* the number of child-link paths of at most fuel links that start at h
Paths(e, h, fuel) ==
    IF h \notin DOMAIN e THEN 0
    ELSE IF fuel = 0 THEN 1
    ELSE 1 + Paths(e, e[h].left, fuel - 1) + Paths(e, e[h].right, fuel - 1)

\* no walk along child links or along parent links comes back to a node: every
\* climb leaves the arena within len steps, and no child-link path is longer
\* than len - 1 links
Acyclic(e) ==
    \A i \in DOMAIN e :
        /\ ClimbsOut(e, i, len(e))
        /\ Paths(e, i, len(e)) = Paths(e, i, len(e) - 1)

\* the tree and the result a call leaves, step by step, are those of the call
\* computed in one piece from the tree it started from
StepsAgree ==
    [][ (Running /\ ~Running') =>
          LET z0 == last.z0
              z2 == [entries |-> entries', root |-> root']
          IN  CASE last.op = "Insert" ->
                     IF last'.ret
                     THEN find(z0, last.key) = SENTINEL /\ z2 = insert(z0, last.key, last.rank)
                     ELSE find(z0, last.key) # SENTINEL /\ z2 = z0
                [] last.op = "Delete" ->
                     <<z2, last'.ret>> = deleteInternal(z0, find(z0, last.key))
                [] last.op = "DeleteIter" ->
                     <<z2, last'.ret>> = deleteInternal(z0, last.keyIdx)
                [] last.op = "Find" -> z2 = z0 /\ iter'.current = find(z0, last.key)
                [] last.op = "Minimum" -> z2 = z0 /\ iter'.current = minimum(z0)
                [] last.op = "Maximum" -> z2 = z0 /\ iter'.current = maximum(z0)
                [] last.op = "Next" ->
                     z2 = z0 /\ iter'.current = next(z0.entries, iter.current)
                [] last.op = "Prev" ->
                     z2 = z0 /\ iter'.current = prev(z0.entries, iter.current)
      ]_vars

\* C29: termination. Every Insert, Delete, DeleteIter with a fresh cursor, query
\* and iterator step that has been started returns, provided the random source
\* returns tails at some point of every run of coin flips; and in every state,
\* between calls and inside them, neither the child links nor the parent links
\* form a cycle, so every loop that follows them reaches the none handle.
C29_Termination ==
    /\ []Acyclic(entries)
    /\ Running ~> ~Running

\* C29 witness: an Insert has returned that flipped heads before tails and
\* unzipped the old tree: the new node is the root with a subtree on each side.
C29_Witness ==
    /\ ~Running
    /\ last.op = "Insert" /\ last.ret
    /\ len(entries) = 3 /\ root = 2
    /\ entries[2].rank >= Half
    /\ entries[2].left # SENTINEL /\ entries[2].right # SENTINEL
    /\ entries[2].count = 3

====
